---------------------------- MODULE Spec2Model ----------------------------
(***************************************************************************)
(* LiftText: the image viewer widget (ImageWithBoxes with its zoom/pan and *)
(* selection mixins), the main window that drives it (OCRApp), the PDF     *)
(* page handler and the OCR worker thread.                                 *)
(*                                                                         *)
(* Conventions.  Python None is the empty tuple for objects (pixmaps,      *)
(* points, rectangles), the empty string for paths and -1 for the optional *)
(* integers dragging_handle, selected_word_index and hovered_word_index.   *)
(* A point is <<x, y>>, a rectangle <<x, y, w, h>>, a pixmap               *)
(* <<name, w, h>>.  scale_factor is the                                    *)
(* exact fraction <<scaled width, original width>>; zoom_level is the      *)
(* exact value 2^a * 3^b * 5^c kept as <<a, b, c>> (1.2 is <<1, 1, -1>>),  *)
(* since the powers of 6/5 between 0.1 and 10 do not fit a machine         *)
(* integer.  int() is truncation toward zero, // is floor division.        *)
(***************************************************************************)
EXTENDS Integers, Sequences, FiniteSets, TLC

VARIABLES viewer, app, pdf, workers, emitted

vars == <<viewer, app, pdf, workers, emitted>>

---------------------------------------------------------------------------
(* Bounds of the model *)

\* OCR runs that may be started in one behaviour
MaxRuns == 2

\* OCR runs started in the selection-scanning specification
MaxSelRuns == 1

\* OCR runs started in the specification of Scan with selections of
\* different sizes
MaxScanRuns == 1

\* words the engine may return for one run
MaxWords == 1

\* largest side of the images given to clamp_selection_to_image, in pixels
MaxImage == 3

\* largest pan offset the pointer drags of the widget specification build up
MaxPan == 300

\* largest coordinate of the image points taken through the conversions
MaxPoint == 3

\* text fragments in one engine result given to the word-entry builder
MaxFragments == 2

\* largest coordinate of the small crop origins given to the builder
MaxOrigin == 2

\* longest word list given to set_word_data in the hit-test specification
MaxHitWords == 2

---------------------------------------------------------------------------
(* Program constants *)

MIN_SELECTION_SIZE == 20

MAX_CACHE_SIZE == 10

\* side of a resize handle's hit rectangle, in display pixels
handle_size == 10

---------------------------------------------------------------------------
(* Values *)

None == <<>>

NoHandle == -1

NoIndex == -1

\* None for a file path
NoPath == ""

LeftButton == "LeftButton"

RightButton == "RightButton"

MiddleButton == "MiddleButton"

Min(a, b) == IF a <= b THEN a ELSE b

Max(a, b) == IF a >= b THEN a ELSE b

Abs(a) == IF a >= 0 THEN a ELSE -a

\* Python int(n / d) for d > 0: truncation toward zero
Trunc(n, d) == IF n >= 0 THEN n \div d ELSE -((-n) \div d)

\* Natural numbers of any size, for the products with a zoom level: a number
\* is the sequence of its digits in base Limb, least significant first
Limb == 10000

RECURSIVE BigOf(_)
BigOf(n) == IF n < Limb THEN <<n>> ELSE <<n % Limb>> \o BigOf(n \div Limb)

\* b * m + carry for a small m
RECURSIVE BigTimes(_, _, _)
BigTimes(b, m, carry) ==
    IF b = <<>> THEN (IF carry = 0 THEN <<>> ELSE <<carry>>)
    ELSE LET t == b[1] * m + carry
         IN  <<t % Limb>> \o BigTimes(Tail(b), m, t \div Limb)

\* b * m^e
RECURSIVE BigTimesPow(_, _, _)
BigTimesPow(b, m, e) ==
    IF e = 0 THEN b ELSE BigTimesPow(BigTimes(b, m, 0), m, e - 1)

\* quotient q and remainder r of b by a small d
RECURSIVE BigDivRem(_, _)
BigDivRem(b, d) ==
    IF b = <<>> THEN [q |-> <<>>, r |-> 0]
    ELSE LET hi  == BigDivRem(Tail(b), d)
             cur == hi.r * Limb + b[1]
         IN  [q |-> <<cur \div d>> \o hi.q, r |-> cur % d]

\* floor(b / d^e)
RECURSIVE BigDivPow(_, _, _)
BigDivPow(b, d, e) ==
    IF e = 0 THEN b ELSE BigDivPow(BigDivRem(b, d).q, d, e - 1)

\* the integer a number stands for (for numbers known to be small)
RECURSIVE BigInt(_)
BigInt(b) == IF b = <<>> THEN 0 ELSE b[1] + Limb * BigInt(Tail(b))

\* a < b
BigLess(a, b) ==
    LET A(i) == IF i <= Len(a) THEN a[i] ELSE 0
        B(i) == IF i <= Len(b) THEN b[i] ELSE 0
        D    == {i \in 1..Max(Len(a), Len(b)) : A(i) # B(i)}
    IN  D # {} /\ LET i == CHOOSE k \in D : \A j \in D : k >= j
                  IN  A(i) < B(i)

\* zoom levels: 1.0, the factor 1.2 of one zoom step, and product / quotient
ZoomOne == <<0, 0, 0>>

ZoomStep == <<1, 1, -1>>

ZoomTimes(z, f) == <<z[1] + f[1], z[2] + f[2], z[3] + f[3]>>

ZoomOver(z, f) == <<z[1] - f[1], z[2] - f[2], z[3] - f[3]>>

\* w times the numerator of zoom level z (the primes with positive exponent)
ZoomNum(z, w) ==
    BigTimesPow(BigTimesPow(BigTimesPow(BigOf(w), 2, Max(z[1], 0)),
                            3, Max(z[2], 0)), 5, Max(z[3], 0))

\* y < z for zoom levels
ZoomLess(y, z) ==
    BigLess(ZoomNum(ZoomOver(y, z), 1), ZoomNum(ZoomOver(z, y), 1))

\* int(w * z) for an integer w >= 0 and a zoom level z
ZoomScale(w, z) ==
    BigInt(BigDivPow(BigDivPow(BigDivPow(ZoomNum(z, w), 2, Max(-z[1], 0)),
                               3, Max(-z[2], 0)), 5, Max(-z[3], 0)))

\* truth value of a QPoint / QRect / tuple-or-None in a Python condition
\* (a Qt value type with isNull() is false when null)
PointTruthy(p) == p # None /\ p # <<0, 0>>

RectTruthy(r) == r # None /\ ~(r[3] = 0 /\ r[4] = 0)

\* truth value of dragging_handle in `if ... or self.dragging_handle`
HandleTruthy(h) == h # NoHandle /\ h # 0

\* QRect(x, y, w, h).contains(p)
QRectContains(r, p) ==
    LET x1 == r[1]
        x2 == r[1] + r[3] - 1
        y1 == r[2]
        y2 == r[2] + r[4] - 1
        l  == IF x2 < x1 - 1 THEN x2 ELSE x1
        rr == IF x2 < x1 - 1 THEN x1 ELSE x2
        t  == IF y2 < y1 - 1 THEN y2 ELSE y1
        b  == IF y2 < y1 - 1 THEN y1 ELSE y2
    IN  p[1] >= l /\ p[1] <= rr /\ p[2] >= t /\ p[2] <= b

\* QSize(w, h).scaled(tw, th, Qt.KeepAspectRatio)
QSizeScaled(w, h, tw, th) ==
    LET rw == (th * w) \div h
    IN  IF rw <= tw THEN <<rw, th>> ELSE <<tw, (tw * h) \div w>>

\* size of QPixmap.scaled(tw, th, Qt.KeepAspectRatio): a null pixmap for an
\* empty target size, otherwise at least 1 x 1
PixmapScaledSize(w, h, tw, th) ==
    IF tw <= 0 \/ th <= 0 THEN <<0, 0>>
    ELSE LET s == QSizeScaled(w, h, tw, th)
         IN  <<Max(s[1], 1), Max(s[2], 1)>>

---------------------------------------------------------------------------
(* ZoomPanMixin *)

min_zoom == <<-1, 0, -1>>

max_zoom == <<1, 0, 1>>

\* update_display: scaled_pixmap, scale_factor and the centering offsets
update_display(v) ==
    IF v.original_pixmap = None THEN v
    ELSE LET ow   == v.original_pixmap[2]
             oh   == v.original_pixmap[3]
             base == PixmapScaledSize(ow, oh, v.width, v.height)
             zw   == ZoomScale(base[1], v.zoom_level)
             zh   == ZoomScale(base[2], v.zoom_level)
             sp   == PixmapScaledSize(ow, oh, zw, zh)
         IN  [v EXCEPT !.scaled_pixmap = sp,
                       !.scale_factor  = <<sp[1], ow>>,
                       !.offset_x      = (v.width - sp[1]) \div 2,
                       !.offset_y      = (v.height - sp[2]) \div 2]

\* update_display emits zoom_changed whenever an image is loaded
update_display_signals(v) ==
    IF v.original_pixmap = None THEN <<>>
    ELSE <<[signal |-> "zoom_changed", arg |-> v.zoom_level]>>

\* zoom_in without the upper limit
zoom_in_unclamped(v) ==
    IF v.original_pixmap = None THEN v
    ELSE update_display([v EXCEPT !.zoom_level = ZoomTimes(v.zoom_level, ZoomStep)])

zoom_in(v) ==
    IF v.original_pixmap = None THEN v
    ELSE LET t        == ZoomTimes(v.zoom_level, ZoomStep)
             new_zoom == IF ZoomLess(max_zoom, t) THEN max_zoom ELSE t
         IN  IF new_zoom # v.zoom_level
             THEN update_display([v EXCEPT !.zoom_level = new_zoom])
             ELSE v

zoom_out(v) ==
    IF v.original_pixmap = None THEN v
    ELSE LET t        == ZoomOver(v.zoom_level, ZoomStep)
             new_zoom == IF ZoomLess(t, min_zoom) THEN min_zoom ELSE t
         IN  IF new_zoom # v.zoom_level
             THEN update_display([v EXCEPT !.zoom_level = new_zoom])
             ELSE v

zoom_reset(v) ==
    IF v.original_pixmap = None THEN v
    ELSE update_display([v EXCEPT !.zoom_level = ZoomOne,
                                  !.pan_offset_x = 0,
                                  !.pan_offset_y = 0])

\* zoom_in and zoom_out emit zoom_changed (through update_display) when the
\* zoom level changes, zoom_reset whenever an image is loaded
zoom_in_signals(v) ==
    IF zoom_in(v).zoom_level # v.zoom_level
    THEN update_display_signals(zoom_in(v)) ELSE <<>>

zoom_out_signals(v) ==
    IF zoom_out(v).zoom_level # v.zoom_level
    THEN update_display_signals(zoom_out(v)) ELSE <<>>

zoom_reset_signals(v) == update_display_signals(zoom_reset(v))

handle_pan_press(v, button, pos) ==
    IF button \in {MiddleButton, RightButton}
    THEN [v EXCEPT !.is_panning = TRUE,
                   !.pan_start_pos = pos,
                   !.pan_start_offset_x = v.pan_offset_x,
                   !.pan_start_offset_y = v.pan_offset_y]
    ELSE v

handle_pan_release(v, button) ==
    IF button \in {MiddleButton, RightButton} /\ v.is_panning
    THEN [v EXCEPT !.is_panning = FALSE]
    ELSE v

handle_pan_move(v, pos) ==
    IF v.is_panning
    THEN [v EXCEPT !.pan_offset_x = v.pan_start_offset_x + (pos[1] - v.pan_start_pos[1]),
                   !.pan_offset_y = v.pan_start_offset_y + (pos[2] - v.pan_start_pos[2])]
    ELSE v

---------------------------------------------------------------------------
(* SelectionMixin *)

display_to_original_coords(v, display_x, display_y) ==
    IF v.original_pixmap = None THEN <<0, 0>>
    ELSE <<Trunc((display_x - v.offset_x - v.pan_offset_x) * v.scale_factor[2],
                 v.scale_factor[1]),
           Trunc((display_y - v.offset_y - v.pan_offset_y) * v.scale_factor[2],
                 v.scale_factor[1])>>

original_to_display_coords(v, orig_x, orig_y) ==
    <<Trunc(orig_x * v.scale_factor[1]
              + (v.offset_x + v.pan_offset_x) * v.scale_factor[2], v.scale_factor[2]),
      Trunc(orig_y * v.scale_factor[1]
              + (v.offset_y + v.pan_offset_y) * v.scale_factor[2], v.scale_factor[2])>>

get_selection_display_rect(v) ==
    IF v.selection_rect_original = None THEN None
    ELSE LET r == v.selection_rect_original
             d == original_to_display_coords(v, r[1], r[2])
         IN  <<d[1], d[2],
               Trunc(r[3] * v.scale_factor[1], v.scale_factor[2]),
               Trunc(r[4] * v.scale_factor[1], v.scale_factor[2])>>

clear_selection(v) ==
    [v EXCEPT !.selection_rect_original = None, !.selection_handles = <<>>]

\* set_selection_mode without the reset of the drag flags
set_selection_mode_keeps_drag(v, enabled) ==
    IF enabled
    THEN [v EXCEPT !.selection_mode = TRUE]
    ELSE [clear_selection(v) EXCEPT !.selection_mode = FALSE]

set_selection_mode(v, enabled) ==
    IF enabled
    THEN [v EXCEPT !.selection_mode = TRUE]
    ELSE [clear_selection(v) EXCEPT !.selection_mode = FALSE,
                                    !.drawing_selection = FALSE,
                                    !.moving_selection = FALSE,
                                    !.dragging_handle = NoHandle]

\* the clamp with the origin limited to the image size instead of size - 1
ClampRect_origin_at_size(r, img_w, img_h) ==
    LET x == Max(0, Min(r[1], img_w))
        y == Max(0, Min(r[2], img_h))
        w == Min(r[3], img_w - x)
        h == Min(r[4], img_h - y)
    IN  <<x, y, Max(1, w), Max(1, h)>>

\* the clamped rectangle for a rect and an image size
ClampRect(r, img_w, img_h) ==
    LET x == Max(0, Min(r[1], img_w - 1))
        y == Max(0, Min(r[2], img_h - 1))
        w == Min(r[3], img_w - x)
        h == Min(r[4], img_h - y)
    IN  <<x, y, Max(1, w), Max(1, h)>>

clamp_selection_to_image(v) ==
    IF v.selection_rect_original = None \/ v.original_pixmap = None THEN v
    ELSE [v EXCEPT !.selection_rect_original =
             ClampRect(v.selection_rect_original, v.original_pixmap[2], v.original_pixmap[3])]

\* validate_selection with the minimum size excluded
validate_selection_strict(v) ==
    /\ v.selection_rect_original # None
    /\ v.selection_rect_original[3] > MIN_SELECTION_SIZE
    /\ v.selection_rect_original[4] > MIN_SELECTION_SIZE

validate_selection(v) ==
    /\ v.selection_rect_original # None
    /\ v.selection_rect_original[3] >= MIN_SELECTION_SIZE
    /\ v.selection_rect_original[4] >= MIN_SELECTION_SIZE

\* the 8 handle rectangles around a display rectangle: TL, T, TR, R, BR, B, BL, L
HandleRects(rect) ==
    LET half   == handle_size \div 2
        left   == rect[1]
        top    == rect[2]
        right  == rect[1] + rect[3] - 1
        bottom == rect[2] + rect[4] - 1
        cx     == Trunc(left + right, 2)
        cy     == Trunc(top + bottom, 2)
        positions == << <<left, top>>, <<cx, top>>, <<right, top>>, <<right, cy>>,
                        <<right, bottom>>, <<cx, bottom>>, <<left, bottom>>, <<left, cy>> >>
    IN  [i \in 1..8 |-> <<positions[i][1] - half, positions[i][2] - half,
                          handle_size, handle_size>>]

update_selection_handles(v) ==
    IF v.selection_rect_original = None THEN [v EXCEPT !.selection_handles = <<>>]
    ELSE LET rect == get_selection_display_rect(v)
         IN  IF ~RectTruthy(rect) THEN [v EXCEPT !.selection_handles = <<>>]
             ELSE [v EXCEPT !.selection_handles = HandleRects(rect)]

\* index (0..7) of the first handle rectangle containing pos, or None
find_handle_at_pos(v, pos) ==
    LET hits == {i \in 1..Len(v.selection_handles) : QRectContains(v.selection_handles[i], pos)}
    IN  IF hits = {} THEN NoHandle
        ELSE (CHOOSE i \in hits : \A j \in hits : i <= j) - 1

point_in_selection(v, pos) ==
    LET rect == get_selection_display_rect(v)
    IN  IF RectTruthy(rect) THEN QRectContains(rect, pos) ELSE FALSE

update_selection_from_drag(v, current_pos) ==
    IF ~PointTruthy(v.drag_start_pos) \/ v.original_pixmap = None THEN v
    ELSE LET s == display_to_original_coords(v, v.drag_start_pos[1], v.drag_start_pos[2])
             e == display_to_original_coords(v, current_pos[1], current_pos[2])
         IN  update_selection_handles(
               [v EXCEPT !.selection_rect_original =
                  <<Min(s[1], e[1]), Min(s[2], e[2]), Abs(e[1] - s[1]), Abs(e[2] - s[2])>>])

move_selection(v, current_pos) ==
    IF ~PointTruthy(v.drag_start_pos) \/ v.drag_start_rect = None THEN v
    ELSE LET delta_x == current_pos[1] - v.drag_start_pos[1]
             delta_y == current_pos[2] - v.drag_start_pos[2]
             r       == v.drag_start_rect
         IN  update_selection_handles(
               [v EXCEPT !.selection_rect_original =
                  <<Trunc(r[1] * v.scale_factor[1] + delta_x * v.scale_factor[2], v.scale_factor[1]),
                    Trunc(r[2] * v.scale_factor[1] + delta_y * v.scale_factor[2], v.scale_factor[1]),
                    r[3], r[4]>>])

\* a resize in which the handle drags the whole rectangle: the size of the
\* snapshot is kept and the far edges move too
ResizedRect_keeps_size(r, handle, curr_orig) ==
    LET x1 == IF handle \in {0, 6, 7} THEN curr_orig[1]
              ELSE IF handle \in {2, 3, 4} THEN curr_orig[1] - r[3]
              ELSE r[1]
        y1 == IF handle \in {0, 1, 2} THEN curr_orig[2]
              ELSE IF handle \in {4, 5, 6} THEN curr_orig[2] - r[4]
              ELSE r[2]
    IN  <<x1, y1, r[3], r[4]>>

\* the resize without the normalisation of negative dimensions
ResizedRect_unnormalised(r, handle, curr_orig) ==
    LET x1 == IF handle \in {0, 6, 7} THEN curr_orig[1] ELSE r[1]
        w1 == IF handle \in {0, 6, 7} THEN (r[1] + r[3]) - curr_orig[1]
              ELSE IF handle \in {2, 3, 4} THEN curr_orig[1] - r[1]
              ELSE r[3]
        y1 == IF handle \in {0, 1, 2} THEN curr_orig[2] ELSE r[2]
        h1 == IF handle \in {0, 1, 2} THEN (r[2] + r[4]) - curr_orig[2]
              ELSE IF handle \in {4, 5, 6} THEN curr_orig[2] - r[2]
              ELSE r[4]
    IN  <<x1, y1, w1, h1>>

\* the rectangle a resize with `handle` gives for snapshot r and pointer curr_orig
ResizedRect(r, handle, curr_orig) ==
    LET x1 == IF handle \in {0, 6, 7} THEN curr_orig[1] ELSE r[1]
        w1 == IF handle \in {0, 6, 7} THEN (r[1] + r[3]) - curr_orig[1]
              ELSE IF handle \in {2, 3, 4} THEN curr_orig[1] - r[1]
              ELSE r[3]
        y1 == IF handle \in {0, 1, 2} THEN curr_orig[2] ELSE r[2]
        h1 == IF handle \in {0, 1, 2} THEN (r[2] + r[4]) - curr_orig[2]
              ELSE IF handle \in {4, 5, 6} THEN curr_orig[2] - r[2]
              ELSE r[4]
        x2 == IF w1 < 0 THEN x1 + w1 ELSE x1
        y2 == IF h1 < 0 THEN y1 + h1 ELSE y1
    IN  <<x2, y2, Abs(w1), Abs(h1)>>

resize_selection_with_handle(v, current_pos) ==
    IF v.dragging_handle = NoHandle \/ v.drag_start_rect = None THEN v
    ELSE update_selection_handles(
           [v EXCEPT !.selection_rect_original =
              ResizedRect(v.drag_start_rect, v.dragging_handle,
                          display_to_original_coords(v, current_pos[1], current_pos[2]))])

---------------------------------------------------------------------------
(* ImageWithBoxes *)

\* one pass of the ray-casting loop; st = [inside, xinters, unbound] where
\* xinters is None until first assigned (a fraction <<num, den>> afterwards)
\* and unbound records a read of xinters before any assignment
RECURSIVE PipLoop(_, _, _, _)
PipLoop(point, polygon, i, st) ==
    IF i > Len(polygon) \/ st.unbound THEN st
    ELSE LET n     == Len(polygon)
             x     == point[1]
             y     == point[2]
             p1    == polygon[i]
             p2    == polygon[(i % n) + 1]
             reach == /\ y > Min(p1[2], p2[2])
                      /\ y <= Max(p1[2], p2[2])
                      /\ x <= Max(p1[1], p2[1])
             xi    == IF reach /\ p1[2] # p2[2]
                      THEN <<(y - p1[2]) * (p2[1] - p1[1]) + p1[1] * (p2[2] - p1[2]),
                             p2[2] - p1[2]>>
                      ELSE st.xinters
             reads == reach /\ p1[1] # p2[1]
             le    == IF xi = None THEN FALSE
                      ELSE IF xi[2] > 0 THEN x * xi[2] <= xi[1]
                      ELSE x * xi[2] >= xi[1]
             flip  == reach /\ (p1[1] = p2[1] \/ le)
         IN  PipLoop(point, polygon, i + 1,
                     [inside  |-> IF flip THEN ~st.inside ELSE st.inside,
                      xinters |-> xi,
                      unbound |-> reads /\ xi = None])

\* the loop with the lower comparison on y inclusive (y >= min), so that
\* horizontal edges at the point's height pass the comparisons on y
RECURSIVE PipLoop_inclusive_min(_, _, _, _)
PipLoop_inclusive_min(point, polygon, i, st) ==
    IF i > Len(polygon) \/ st.unbound THEN st
    ELSE LET n     == Len(polygon)
             x     == point[1]
             y     == point[2]
             p1    == polygon[i]
             p2    == polygon[(i % n) + 1]
             reach == /\ y >= Min(p1[2], p2[2])
                      /\ y <= Max(p1[2], p2[2])
                      /\ x <= Max(p1[1], p2[1])
             xi    == IF reach /\ p1[2] # p2[2]
                      THEN <<(y - p1[2]) * (p2[1] - p1[1]) + p1[1] * (p2[2] - p1[2]),
                             p2[2] - p1[2]>>
                      ELSE st.xinters
             reads == reach /\ p1[1] # p2[1]
             le    == IF xi = None THEN FALSE
                      ELSE IF xi[2] > 0 THEN x * xi[2] <= xi[1]
                      ELSE x * xi[2] >= xi[1]
             flip  == reach /\ (p1[1] = p2[1] \/ le)
         IN  PipLoop_inclusive_min(point, polygon, i + 1,
                     [inside  |-> IF flip THEN ~st.inside ELSE st.inside,
                      xinters |-> xi,
                      unbound |-> reads /\ xi = None])

\* point_in_polygon's state after that loop
PipResult_inclusive_min(point, polygon) ==
    PipLoop_inclusive_min(point, polygon, 1,
                          [inside |-> FALSE, xinters |-> None, unbound |-> FALSE])

PipResult(point, polygon) ==
    PipLoop(point, polygon, 1, [inside |-> FALSE, xinters |-> None, unbound |-> FALSE])

\* the test replaced by the one against the polygon's bounding box
point_in_polygon_bounding_box(point, polygon) ==
    /\ \E q \in 1..Len(polygon) : polygon[q][1] <= point[1]
    /\ \E q \in 1..Len(polygon) : polygon[q][1] >= point[1]
    /\ \E q \in 1..Len(polygon) : polygon[q][2] <= point[2]
    /\ \E q \in 1..Len(polygon) : polygon[q][2] >= point[2]

point_in_polygon(point, polygon) == PipResult(point, polygon).inside

\* a word's polygon in display coordinates
ScaledPoints(v, bbox) ==
    [k \in 1..Len(bbox) |-> original_to_display_coords(v, bbox[k][1], bbox[k][2])]

\* the hit-test walking the word list from its first entry
WordAt_first_wins(v, pos) ==
    LET hits == {i \in 1..Len(v.word_data) :
                    /\ v.word_data[i].bbox # None
                    /\ point_in_polygon(pos, ScaledPoints(v, v.word_data[i].bbox))}
    IN  IF hits = {} THEN NoIndex
        ELSE (CHOOSE i \in hits : \A j \in hits : i <= j) - 1

\* index (0-based) of the top-most word whose polygon contains pos, or None
WordAt(v, pos) ==
    LET hits == {i \in 1..Len(v.word_data) :
                    /\ v.word_data[i].bbox # None
                    /\ point_in_polygon(pos, ScaledPoints(v, v.word_data[i].bbox))}
    IN  IF hits = {} THEN NoIndex
        ELSE (CHOOSE i \in hits : \A j \in hits : i >= j) - 1

\* set_image without the reset of the pan offset
set_image_keeps_pan(v, pixmap) ==
    update_display([v EXCEPT !.original_pixmap = pixmap,
                             !.word_data = <<>>,
                             !.selected_word_index = NoIndex,
                             !.hovered_word_index = NoIndex,
                             !.zoom_level = ZoomOne])

set_image(v, pixmap) ==
    update_display([v EXCEPT !.original_pixmap = pixmap,
                             !.word_data = <<>>,
                             !.selected_word_index = NoIndex,
                             !.hovered_word_index = NoIndex,
                             !.zoom_level = ZoomOne,
                             !.pan_offset_x = 0,
                             !.pan_offset_y = 0])

set_word_data(v, words) == [v EXCEPT !.word_data = words]

\* resizeEvent with the pan offset reset, as zoom_reset does
resizeEvent_resets_pan(v, w, h) ==
    update_display([v EXCEPT !.width = w, !.height = h,
                             !.pan_offset_x = 0, !.pan_offset_y = 0])

resizeEvent(v, w, h) == update_display([v EXCEPT !.width = w, !.height = h])

\* paintEvent: render_selection_overlay recomputes the handle rectangles
\* when a selection with a non-null display rectangle exists
paintEvent(v) ==
    IF v.selection_rect_original = None THEN v
    ELSE IF ~RectTruthy(get_selection_display_rect(v)) THEN v
    ELSE update_selection_handles(v)

\* mousePressEvent with the selection branch taken for every primary-button
\* press, whatever the selection mode
mousePressEvent_ignores_mode(v, button, pos) ==
    IF button \in {MiddleButton, RightButton} THEN handle_pan_press(v, button, pos)
    ELSE IF button = LeftButton
    THEN LET handle_idx == find_handle_at_pos(v, pos)
         IN  IF handle_idx # NoHandle
             THEN [v EXCEPT !.dragging_handle = handle_idx,
                            !.drag_start_pos = pos,
                            !.drag_start_rect = v.selection_rect_original]
             ELSE IF point_in_selection(v, pos)
             THEN [v EXCEPT !.moving_selection = TRUE,
                            !.drag_start_pos = pos,
                            !.drag_start_rect = v.selection_rect_original]
             ELSE [v EXCEPT !.drawing_selection = TRUE,
                            !.drag_start_pos = pos,
                            !.selection_rect_original = None]
    ELSE v

mousePressEvent(v, button, pos) ==
    IF button \in {MiddleButton, RightButton} THEN handle_pan_press(v, button, pos)
    ELSE IF v.selection_mode /\ button = LeftButton
    THEN LET handle_idx == find_handle_at_pos(v, pos)
         IN  IF handle_idx # NoHandle
             THEN [v EXCEPT !.dragging_handle = handle_idx,
                            !.drag_start_pos = pos,
                            !.drag_start_rect = v.selection_rect_original]
             ELSE IF point_in_selection(v, pos)
             THEN [v EXCEPT !.moving_selection = TRUE,
                            !.drag_start_pos = pos,
                            !.drag_start_rect = v.selection_rect_original]
             ELSE [v EXCEPT !.drawing_selection = TRUE,
                            !.drag_start_pos = pos,
                            !.selection_rect_original = None]
    ELSE IF button = LeftButton
    THEN LET idx == WordAt(v, pos)
         IN  IF idx # NoIndex THEN [v EXCEPT !.selected_word_index = idx]
             ELSE [v EXCEPT !.selected_word_index = NoIndex]
    ELSE v

\* the signals of a press with the deselection emitted for every click on
\* empty space
mousePressEvent_signals_always_deselects(v, button, pos) ==
    IF button = LeftButton /\ ~v.selection_mode
    THEN LET idx == WordAt(v, pos)
         IN  IF idx # NoIndex
             THEN <<[signal |-> "word_clicked", arg |-> v.word_data[idx + 1]]>>
             ELSE <<[signal |-> "word_clicked", arg |-> None]>>
    ELSE <<>>

mousePressEvent_signals(v, button, pos) ==
    IF button = LeftButton /\ ~v.selection_mode
    THEN LET idx == WordAt(v, pos)
         IN  IF idx # NoIndex
             THEN <<[signal |-> "word_clicked", arg |-> v.word_data[idx + 1]]>>
             ELSE IF v.selected_word_index # NoIndex
             THEN <<[signal |-> "word_clicked", arg |-> None]>>
             ELSE <<>>
    ELSE <<>>

\* whether a release of `button` takes the selection-finalization branch
ReleaseFinalizes(v, button) ==
    /\ ~(button \in {MiddleButton, RightButton} /\ v.is_panning)
    /\ button = LeftButton
    /\ (v.drawing_selection \/ v.moving_selection \/ HandleTruthy(v.dragging_handle))

mouseReleaseEvent(v, button) ==
    IF button \in {MiddleButton, RightButton} /\ v.is_panning
    THEN handle_pan_release(v, button)
    ELSE IF ReleaseFinalizes(v, button)
    THEN [clamp_selection_to_image(v) EXCEPT !.drawing_selection = FALSE,
                                             !.moving_selection = FALSE,
                                             !.dragging_handle = NoHandle,
                                             !.drag_start_pos = None,
                                             !.drag_start_rect = None]
    ELSE v

mouseReleaseEvent_signals(v, button) ==
    IF ReleaseFinalizes(v, button)
    THEN <<[signal |-> "selection_changed",
            arg |-> (clamp_selection_to_image(v).selection_rect_original # None)]>>
    ELSE <<>>

\* mouseMoveEvent with the drags of the selection handled before the pan
mouseMoveEvent_drag_first(v, pos) ==
    IF v.dragging_handle # NoHandle THEN resize_selection_with_handle(v, pos)
    ELSE IF v.moving_selection THEN move_selection(v, pos)
    ELSE IF v.drawing_selection THEN update_selection_from_drag(v, pos)
    ELSE IF v.is_panning THEN handle_pan_move(v, pos)
    ELSE IF v.selection_mode THEN v
    ELSE [v EXCEPT !.hovered_word_index = WordAt(v, pos)]

mouseMoveEvent(v, pos) ==
    IF v.is_panning THEN handle_pan_move(v, pos)
    ELSE IF v.dragging_handle # NoHandle THEN resize_selection_with_handle(v, pos)
    ELSE IF v.moving_selection THEN move_selection(v, pos)
    ELSE IF v.drawing_selection THEN update_selection_from_drag(v, pos)
    ELSE IF v.selection_mode THEN v
    ELSE [v EXCEPT !.hovered_word_index = WordAt(v, pos)]

---------------------------------------------------------------------------
(* The files on disk and the OCR engine: the inputs of the model *)

\* image files and their pixel sizes
ImageFiles == {"a.png", "b.png"}

PdfFiles == {"doc.pdf"}

\* rendered pages of doc.pdf (temp image paths), by 0-based page number
PdfPagePaths == <<"doc.pdf:0", "doc.pdf:1">>

\* a PDF with more pages than the page cache holds
BookPages == 12

\* files that do not load: an image PIL cannot open, a PDF that needs a
\* password, a PDF without pages and a PDF that fitz cannot open
CorruptImages == {"bad.png"}

LockedPdfs == {"locked.pdf"}

EmptyPdfs == {"empty.pdf"}

BrokenPdfs == {"broken.pdf"}

\* doc.page_count
PageCount(pdf_path) ==
    CASE pdf_path = "doc.pdf"  -> Len(PdfPagePaths)
      [] pdf_path = "book.pdf" -> BookPages
      [] OTHER                 -> 0

\* the temp image a page is rendered to, by 0-based page number
PagePath(pdf_path, page_number) ==
    IF pdf_path = "doc.pdf" THEN PdfPagePaths[page_number + 1]
    ELSE pdf_path \o ":" \o ToString(page_number)

\* pixel size of the image stored at a path
PathSize(path) ==
    CASE path = "a.png" -> <<400, 300>>
      [] path = "b.png" -> <<200, 200>>
      [] path = "strip.png" -> <<10, 500>>
      [] path = "wide.png" -> <<400, 100>>
      [] OTHER          -> <<300, 400>>

\* QPixmap(path)
QPixmap(path) == <<path, PathSize(path)[1], PathSize(path)[2]>>

\* size of the widget given by the window layout
WidgetSize == <<400, 400>>

\* polygon the engine reports for its k-th text fragment, in the coordinates
\* of the image it was given
EnginePolygon(k) ==
    << <<10 * k, 10>>, <<10 * k + 10, 10>>, <<10 * k + 10, 20>>, <<10 * k, 20>> >>

---------------------------------------------------------------------------
(* PDFHandler *)

\* pdf_page_cache is the dict in insertion order, a sequence of
\* <<page_number, temp_path>>; temp_files are the rendered page images on disk
CachedPages(h) == {h.pdf_page_cache[i][1] : i \in 1..Len(h.pdf_page_cache)}

CachedPath(h, page_number) ==
    LET i == CHOOSE i \in 1..Len(h.pdf_page_cache) : h.pdf_page_cache[i][1] = page_number
    IN  h.pdf_page_cache[i][2]

reset_pdf_state(h) ==
    [h EXCEPT !.is_pdf_mode = FALSE,
              !.current_pdf_path = NoPath,
              !.current_page_number = 0,
              !.total_pdf_pages = 0,
              !.temp_files = @ \ {h.pdf_page_cache[i][2] : i \in 1..Len(h.pdf_page_cache)},
              !.pdf_page_cache = <<>>]

\* the key cache_pdf_page evicts: min(self.pdf_page_cache.keys())
oldest_page(h) == CHOOSE k \in CachedPages(h) : \A j \in CachedPages(h) : k <= j

\* cache_pdf_page with an eviction that leaves the temp file on disk
cache_pdf_page_keeps_file(h, page_number, temp_path) ==
    LET full == Len(h.pdf_page_cache) >= MAX_CACHE_SIZE
        kept == IF full
                THEN SelectSeq(h.pdf_page_cache, LAMBDA e : e[1] # oldest_page(h))
                ELSE h.pdf_page_cache
    IN  [h EXCEPT !.pdf_page_cache = Append(kept, <<page_number, temp_path>>)]

\* cache_pdf_page: evict min(keys) and its temp file when the cache is full,
\* then insert
cache_pdf_page(h, page_number, temp_path) ==
    LET full == Len(h.pdf_page_cache) >= MAX_CACHE_SIZE
        kept == IF full
                THEN SelectSeq(h.pdf_page_cache, LAMBDA e : e[1] # oldest_page(h))
                ELSE h.pdf_page_cache
        left == IF full THEN h.temp_files \ {CachedPath(h, oldest_page(h))}
                ELSE h.temp_files
    IN  [h EXCEPT !.pdf_page_cache = Append(kept, <<page_number, temp_path>>),
                  !.temp_files = left]

\* load_pdf_page_display: a cached page is not rendered again; a rendered
\* page is saved to its temp file and cached
load_pdf_page_display(h, page_number) ==
    [(IF page_number \in CachedPages(h) THEN h
      ELSE LET temp_path == PagePath(h.current_pdf_path, page_number)
           IN  cache_pdf_page([h EXCEPT !.temp_files = @ \cup {temp_path}],
                              page_number, temp_path))
        EXCEPT !.current_page_number = page_number]

\* success of load_pdf_file: the first element of the tuple it returns
load_pdf_file_success(pdf_path) ==
    /\ pdf_path \notin BrokenPdfs \cup LockedPdfs
    /\ PageCount(pdf_path) > 0

load_pdf_file(h, pdf_path) ==
    IF pdf_path \in BrokenPdfs THEN reset_pdf_state(h)
    ELSE IF pdf_path \in LockedPdfs \/ PageCount(pdf_path) = 0 THEN h
    ELSE load_pdf_page_display([h EXCEPT !.current_pdf_path = pdf_path,
                                         !.is_pdf_mode = TRUE,
                                         !.current_page_number = 0,
                                         !.total_pdf_pages = PageCount(pdf_path)], 0)

can_navigate_prev(h) == h.is_pdf_mode /\ h.current_page_number > 0

can_navigate_next(h) == h.is_pdf_mode /\ h.current_page_number < h.total_pdf_pages - 1

---------------------------------------------------------------------------
(* OCRApp: helpers shared by the handlers *)

\* update_page_buttons: the ui callback of the PDF handler
update_page_buttons(a, h) ==
    [a EXCEPT !.prev_page_btn = can_navigate_prev(h),
              !.next_page_btn = can_navigate_next(h)]

\* the widgets process() disables before starting a run
DisableForOcr(a) ==
    [a EXCEPT !.process_btn = FALSE,
              !.select_area_btn = FALSE,
              !.zoom_in_btn = FALSE,
              !.zoom_out_btn = FALSE,
              !.zoom_reset_btn = FALSE,
              !.prev_page_btn = FALSE,
              !.next_page_btn = FALSE,
              !.explorer_widget = FALSE,
              !.text_output = FALSE,
              !.copy_btn = FALSE]

\* the release with the Scan button left out
ReleaseBusy_without_scan(a, h) ==
    [update_page_buttons(
        [a EXCEPT !.progress_bar_visible = FALSE,
                  !.select_area_btn = TRUE,
                  !.zoom_in_btn = TRUE,
                  !.zoom_out_btn = TRUE,
                  !.zoom_reset_btn = TRUE], h)
        EXCEPT !.explorer_widget = TRUE,
               !.text_output = TRUE,
               !.copy_btn = TRUE,
               !.is_processing_selection = FALSE]

\* the widgets on_ocr_complete and on_ocr_error enable again
ReleaseBusy(a, h) ==
    [update_page_buttons(
        [a EXCEPT !.progress_bar_visible = FALSE,
                  !.process_btn = TRUE,
                  !.select_area_btn = TRUE,
                  !.zoom_in_btn = TRUE,
                  !.zoom_out_btn = TRUE,
                  !.zoom_reset_btn = TRUE], h)
        EXCEPT !.explorer_widget = TRUE,
               !.text_output = TRUE,
               !.copy_btn = TRUE,
               !.is_processing_selection = FALSE]

\* the tail shared by _load_image and _load_pdf
EnableAfterLoad(a) ==
    [a EXCEPT !.process_btn = TRUE,
              !.select_area_btn = TRUE,
              !.zoom_visible = TRUE]

---------------------------------------------------------------------------
(* Initial state: the main window after construction, no file loaded *)

\* ImageWithBoxes.__init__ in a window whose layout gives the widget WidgetSize
NewViewer ==
    [original_pixmap |-> None, scaled_pixmap |-> None,
     word_data |-> <<>>, selected_word_index |-> NoIndex,
     hovered_word_index |-> NoIndex, scale_factor |-> <<1, 1>>,
     offset_x |-> 0, offset_y |-> 0, zoom_level |-> ZoomOne,
     pan_offset_x |-> 0, pan_offset_y |-> 0, is_panning |-> FALSE,
     pan_start_pos |-> None, pan_start_offset_x |-> 0,
     pan_start_offset_y |-> 0, selection_mode |-> FALSE,
     selection_rect_original |-> None, selection_handles |-> <<>>,
     drawing_selection |-> FALSE, dragging_handle |-> NoHandle,
     moving_selection |-> FALSE, drag_start_pos |-> None,
     drag_start_rect |-> None,
     width |-> WidgetSize[1], height |-> WidgetSize[2]]

\* OCRApp.__init__: the widget states set by init_ui
NewApp ==
    [image_path |-> NoPath, ocr_worker |-> 0, word_data |-> <<>>,
     all_words |-> <<>>, current_crop_rect |-> None,
     is_processing_selection |-> FALSE,
     process_btn |-> FALSE, select_area_btn |-> FALSE,
     zoom_in_btn |-> TRUE, zoom_out_btn |-> TRUE, zoom_reset_btn |-> TRUE,
     prev_page_btn |-> TRUE, next_page_btn |-> TRUE,
     explorer_widget |-> TRUE, text_output |-> TRUE, copy_btn |-> TRUE,
     zoom_visible |-> FALSE, pdf_nav_visible |-> FALSE,
     progress_bar_visible |-> FALSE, progress_bar_value |-> -1]

\* PDFHandler.__init__
NewHandler ==
    [is_pdf_mode |-> FALSE, current_pdf_path |-> NoPath,
     current_page_number |-> 0, total_pdf_pages |-> 0,
     pdf_page_cache |-> <<>>, temp_files |-> {}]

Init ==
    /\ viewer = NewViewer
    /\ app = NewApp
    /\ pdf = NewHandler
    /\ workers = <<>>
    /\ emitted = <<>>

---------------------------------------------------------------------------
(* OCRApp: file loading *)

\* load_image_from_path for an image file: reset_pdf_state, then _load_image,
\* which assigns image_path and then opens the file: Image.open raises for a
\* file it cannot read and the rest of _load_image does not run
load_image(file_path) ==
    /\ pdf' = reset_pdf_state(pdf)
    /\ IF file_path \in CorruptImages
       THEN /\ viewer' = viewer
            /\ app' = [app EXCEPT !.image_path = file_path,
                                  !.pdf_nav_visible = FALSE]
            /\ emitted' = <<>>
       ELSE /\ viewer' = set_image(viewer, QPixmap(file_path))
            /\ app' = EnableAfterLoad([app EXCEPT !.image_path = file_path,
                                                  !.pdf_nav_visible = FALSE])
            /\ emitted' = update_display_signals(viewer')

\* load_image_from_path for a PDF file: reset_pdf_state (which hides the page
\* navigation) when the path differs from the PDF that is open, then _load_pdf
load_pdf(pdf_path) ==
    LET differs == pdf.current_pdf_path # pdf_path
        h0 == IF differs THEN reset_pdf_state(pdf) ELSE pdf
        h1 == load_pdf_file(h0, pdf_path)
        first_page_path == PagePath(pdf_path, 0)
    IN  /\ pdf' = h1
        /\ IF load_pdf_file_success(pdf_path)
           THEN /\ viewer' = set_image(viewer, QPixmap(first_page_path))
                /\ app' = EnableAfterLoad(
                             update_page_buttons([app EXCEPT !.image_path = first_page_path,
                                                             !.pdf_nav_visible = TRUE], h1))
                /\ emitted' = update_display_signals(viewer')
           ELSE /\ viewer' = viewer
                /\ app' = [app EXCEPT !.pdf_nav_visible =
                                         IF differs \/ pdf_path \in BrokenPdfs
                                         THEN FALSE ELSE @]
                /\ emitted' = <<>>

load_image_from_path(file_path) ==
    IF file_path \in PdfFiles \cup {"book.pdf"} \cup LockedPdfs \cup EmptyPdfs \cup BrokenPdfs
    THEN load_pdf(file_path)
    ELSE load_image(file_path)

\* the sidebar upload button (never disabled) and its file dialog
upload_image(file_name) ==
    /\ load_image_from_path(file_name)
    /\ UNCHANGED workers

\* a click on a file in the explorer panel
on_file_selected(file_path) ==
    /\ app.explorer_widget
    /\ load_image_from_path(file_path)
    /\ UNCHANGED workers

\* the tail shared by navigate_to_prev_page and navigate_to_next_page
ShowPage(page_number) ==
    LET h1 == load_pdf_page_display(pdf, page_number)
    IN  /\ pdf' = h1
        /\ viewer' = set_image(viewer, QPixmap(CachedPath(h1, page_number)))
        /\ app' = update_page_buttons(
                     [app EXCEPT !.image_path = CachedPath(h1, page_number)], h1)
        /\ emitted' = update_display_signals(viewer')
        /\ UNCHANGED workers

navigate_to_prev_page ==
    /\ app.pdf_nav_visible /\ app.prev_page_btn
    /\ IF can_navigate_prev(pdf) THEN ShowPage(pdf.current_page_number - 1)
       ELSE UNCHANGED vars

navigate_to_next_page ==
    /\ app.pdf_nav_visible /\ app.next_page_btn
    /\ IF can_navigate_next(pdf) THEN ShowPage(pdf.current_page_number + 1)
       ELSE UNCHANGED vars

---------------------------------------------------------------------------
(* OCRApp: OCR processing *)

\* extract_text: a new OCRWorker for (image_path, crop_rect), started (before:
\* the viewer's word list and selection when Scan was pressed and whether every
\* earlier run had ended, kept to state what a failed run leaves behind)
extract_text(a, image_path, crop_rect) ==
    /\ workers' = Append(workers,
                       [pc |-> "start", image_path |-> image_path,
                        crop_rect |-> crop_rect, sent |-> <<>>,
                        before |-> [word_data |-> viewer.word_data,
                                    selection |-> viewer.selection_rect_original,
                                    alone |-> \A i \in 1..Len(workers) :
                                                 workers[i].pc = "done"]])
    /\ app' = [a EXCEPT !.progress_bar_visible = TRUE,
                        !.progress_bar_value = 0,
                        !.ocr_worker = Len(workers) + 1]

\* the Scan button
process ==
    /\ app.process_btn
    /\ IF app.image_path = NoPath THEN UNCHANGED vars
       ELSE /\ IF viewer.selection_rect_original # None /\ validate_selection(viewer)
               THEN /\ viewer' = set_word_data(viewer, <<>>)
                    /\ extract_text(
                         DisableForOcr([app EXCEPT
                            !.current_crop_rect = viewer.selection_rect_original,
                            !.is_processing_selection = TRUE]),
                         app.image_path, viewer.selection_rect_original)
               ELSE /\ viewer' = viewer
                    /\ extract_text(DisableForOcr(app), app.image_path, None)
            /\ emitted' = <<>>
            /\ UNCHANGED pdf

\* the Select Area button (checkable): enabled is its new checked state
toggle_selection_mode ==
    LET enabled == ~viewer.selection_mode
    IN  /\ app.select_area_btn
        /\ viewer' = set_selection_mode(viewer, enabled)
        /\ app' = IF enabled THEN app
                  ELSE [app EXCEPT !.process_btn = TRUE,
                                   !.current_crop_rect = None,
                                   !.is_processing_selection = FALSE]
        /\ emitted' = <<>>
        /\ UNCHANGED <<pdf, workers>>

---------------------------------------------------------------------------
(* OCRWorker.  A worker is at a position of run() (pc).  run() reads only  *)
(* the worker's own fields, and each signal it emits is queued for the     *)
(* main thread, so what the program does is fixed by the order in which    *)
(* the main thread runs the slots and the user's handlers: one step below  *)
(* is one emit of run() together with the slot it is connected to.  The    *)
(* progress(str) signal only changes label texts and is left out.          *)

Sig(signal, arg, pc) == [signal |-> signal, arg |-> arg, pc |-> pc]

\* result[0] of the engine in the dictionary format: n recognised texts, of
\* which the first m have a polygon in dt_polys
DictResult(image_path, n, m) ==
    [format    |-> "dict",
     rec_texts |-> [k \in 1..n |-> <<image_path, k>>],
     dt_polys  |-> [k \in 1..m |-> EnginePolygon(k)]]

\* result[0] in the list format: n detections [bbox, (text, confidence)], of
\* which the first m have a polygon and the others an empty one
ListResult(image_path, n, m) ==
    [format     |-> "list",
     detections |-> [k \in 1..n |->
                       [bbox |-> IF k <= m THEN EnginePolygon(k) ELSE <<>>,
                        text |-> <<image_path, k>>]]]

\* the polygon moved back to full-image coordinates when the run was cropped
AdjustedBbox(bbox, crop_rect) ==
    IF crop_rect # None
    THEN [q \in 1..Len(bbox) |-> <<bbox[q][1] + crop_rect[1],
                                   bbox[q][2] + crop_rect[2]>>]
    ELSE bbox

\* the builder with the offset left out of the list-format branch
word_data_of_list_unadjusted(crop_rect, page_result) ==
    IF page_result.format = "dict"
    THEN [k \in 1..Len(page_result.rec_texts) |->
            [text  |-> page_result.rec_texts[k],
             index |-> k - 1,
             bbox  |-> IF k <= Len(page_result.dt_polys)
                       THEN AdjustedBbox(page_result.dt_polys[k], crop_rect)
                       ELSE None]]
    ELSE [k \in 1..Len(page_result.detections) |->
            [text  |-> page_result.detections[k].text,
             index |-> k - 1,
             bbox  |-> page_result.detections[k].bbox]]

\* word_data as run() builds it from result[0]: one entry per text, with the
\* polygon when there is one (bbox None: the entry has no usable 'bbox')
word_data_of(crop_rect, page_result) ==
    IF page_result.format = "dict"
    THEN [k \in 1..Len(page_result.rec_texts) |->
            [text  |-> page_result.rec_texts[k],
             index |-> k - 1,
             bbox  |-> IF k <= Len(page_result.dt_polys)
                       THEN AdjustedBbox(page_result.dt_polys[k], crop_rect)
                       ELSE None]]
    ELSE [k \in 1..Len(page_result.detections) |->
            [text  |-> page_result.detections[k].text,
             index |-> k - 1,
             bbox  |-> IF page_result.detections[k].bbox # <<>>
                       THEN AdjustedBbox(page_result.detections[k].bbox, crop_rect)
                       ELSE None]]

\* the word entries built from the engine's n fragments for worker w
WordEntries(w, n) == word_data_of(w.crop_rect, DictResult(w.image_path, n, n))

\* the image the engine was given: the crop, or the whole image
EngineInputSize(w) ==
    IF w.crop_rect # None THEN <<w.crop_rect[3], w.crop_rect[4]>>
    ELSE PathSize(w.image_path)

\* the except branch of run(): error is emitted and run() returns
ErrorSignal == {Sig("error", None, "done")}

\* the words_detected emit, for every number of fragments the engine may read
WordsSignal(w) ==
    {Sig("words_detected", WordEntries(w, n), "words") : n \in 0..MaxWords}

\* run() with words_detected emitted inside the try block before a step that
\* can still raise: error may follow words_detected
run_raises_after_words(w) ==
    CASE w.pc = "start"    -> {Sig("progress_value", 10, "init")}
      [] w.pc = "init"     -> {Sig("progress_value", 50, "predict")} \cup ErrorSignal
      [] w.pc = "predict"  -> {Sig("progress_value", 80, "extract")} \cup ErrorSignal
      [] w.pc = "extract"  ->
            {Sig("preprocessed_image",
                 <<"preprocessed", EngineInputSize(w)[1], EngineInputSize(w)[2]>>,
                 "build")} \cup WordsSignal(w) \cup ErrorSignal
      [] w.pc = "build"    -> WordsSignal(w) \cup ErrorSignal
      [] w.pc = "words"    -> {Sig("progress_value", 100, "progress")} \cup ErrorSignal
      [] w.pc = "progress" -> {Sig("finished", None, "done")}
      [] OTHER             -> {}

\* run(): the signals worker w may emit next, each with the position reached.
\* start: thread started; init: engine construction, image open, crop, save;
\* predict: the engine call; extract: reading the result up to the
\* preprocessed image; build: building the word entries; words, progress:
\* after words_detected and progress_value(100); done: run() has returned
run(w) ==
    CASE w.pc = "start"    -> {Sig("progress_value", 10, "init")}
      [] w.pc = "init"     -> {Sig("progress_value", 50, "predict")} \cup ErrorSignal
      [] w.pc = "predict"  -> {Sig("progress_value", 80, "extract")} \cup ErrorSignal
      [] w.pc = "extract"  ->
            {Sig("preprocessed_image",
                 <<"preprocessed", EngineInputSize(w)[1], EngineInputSize(w)[2]>>,
                 "build")} \cup WordsSignal(w) \cup ErrorSignal
      [] w.pc = "build"    -> WordsSignal(w) \cup ErrorSignal
      [] w.pc = "words"    -> {Sig("progress_value", 100, "progress")}
      [] w.pc = "progress" -> {Sig("finished", None, "done")}
      [] OTHER             -> {}

\* a worker whose run() has returned
Done == [pc |-> "done", image_path |-> NoPath, crop_rect |-> None,
         sent |-> <<>>, before |-> None]

\* the workers after worker i has emitted e (sent: the signals emitted so far)
Emitted(i, e) ==
    IF e.pc = "done" THEN [workers EXCEPT ![i] = Done]
    ELSE [workers EXCEPT ![i].pc = e.pc, ![i].sent = Append(@, e.signal)]

\* the emits of signal `signal` worker i may do next
Emits(i, signal) == {e \in run(workers[i]) : e.signal = signal}

---------------------------------------------------------------------------
(* OCRApp: the slots connected to the signals of worker i *)

on_progress_value_changed(i) ==
    \E e \in Emits(i, "progress_value") :
        /\ app' = [app EXCEPT !.progress_bar_value = e.arg]
        /\ workers' = Emitted(i, e)
        /\ emitted' = <<>>
        /\ UNCHANGED <<viewer, pdf>>

on_preprocessed_image(i) ==
    \E e \in Emits(i, "preprocessed_image") :
        /\ IF app.is_processing_selection
           THEN /\ viewer' = viewer
                /\ emitted' = <<>>
           ELSE /\ viewer' = set_image(viewer, e.arg)
                /\ emitted' = update_display_signals(viewer')
        /\ workers' = Emitted(i, e)
        /\ UNCHANGED <<app, pdf>>

on_words_detected(i) ==
    \E e \in Emits(i, "words_detected") :
        /\ app' = [app EXCEPT !.word_data = e.arg, !.all_words = e.arg]
        /\ viewer' = set_word_data(viewer, e.arg)
        /\ workers' = Emitted(i, e)
        /\ emitted' = <<>>
        /\ UNCHANGED pdf

on_ocr_complete(i) ==
    \E e \in Emits(i, "finished") :
        /\ app' = ReleaseBusy(app, pdf)
        /\ workers' = Emitted(i, e)
        /\ emitted' = <<>>
        /\ UNCHANGED <<viewer, pdf>>

on_ocr_error(i) ==
    \E e \in Emits(i, "error") :
        /\ app' = ReleaseBusy(app, pdf)
        /\ workers' = Emitted(i, e)
        /\ emitted' = <<>>
        /\ UNCHANGED <<viewer, pdf>>

---------------------------------------------------------------------------
(* Pointer and paint events of the viewer *)

MousePress(button, pos) ==
    /\ viewer' = mousePressEvent(viewer, button, pos)
    /\ emitted' = mousePressEvent_signals(viewer, button, pos)
    /\ UNCHANGED <<app, pdf, workers>>

MouseMove(pos) ==
    /\ viewer' = mouseMoveEvent(viewer, pos)
    /\ emitted' = <<>>
    /\ UNCHANGED <<app, pdf, workers>>

MouseRelease(button) ==
    /\ viewer' = mouseReleaseEvent(viewer, button)
    /\ emitted' = mouseReleaseEvent_signals(viewer, button)
    /\ UNCHANGED <<app, pdf, workers>>

Paint ==
    /\ viewer' = paintEvent(viewer)
    /\ emitted' = <<>>
    /\ UNCHANGED <<app, pdf, workers>>

---------------------------------------------------------------------------
(* The application: loading, page navigation, Scan and the OCR runs *)

Files == ImageFiles \cup PdfFiles

\* the slots of worker i
Slots(i) ==
    \/ on_progress_value_changed(i)
    \/ on_preprocessed_image(i)
    \/ on_words_detected(i)
    \/ on_ocr_complete(i)
    \/ on_ocr_error(i)

Next ==
    \/ \E f \in Files : upload_image(f)
    \/ \E f \in Files : on_file_selected(f)
    \/ navigate_to_prev_page
    \/ navigate_to_next_page
    \/ Len(workers) < MaxRuns /\ process
    \/ toggle_selection_mode
    \/ \E i \in 1..Len(workers) : on_progress_value_changed(i)
    \/ \E i \in 1..Len(workers) : on_preprocessed_image(i)
    \/ \E i \in 1..Len(workers) : on_words_detected(i)
    \/ \E i \in 1..Len(workers) : on_ocr_complete(i)
    \/ \E i \in 1..Len(workers) : on_ocr_error(i)

Spec == Init /\ [][Next]_vars

---------------------------------------------------------------------------
(* The viewer alone: loading, the Select Area toggle and pointer gestures *)

\* pointer positions in the 400x400 widget: for a.png a drag from Corner to
\* Opposite selects (50, 50, 300, 200), whose top-left handle is at Corner and
\* whose interior holds Centre
Corner == <<50, 100>>

Centre == <<200, 200>>

Opposite == <<350, 300>>

PressPoints == {Corner, Centre}

MovePoints == {Centre, Opposite}

ViewNext ==
    \/ \E f \in ImageFiles : upload_image(f)
    \/ toggle_selection_mode
    \/ \E p \in PressPoints : MousePress(LeftButton, p)
    \/ \E p \in MovePoints : MouseMove(p)
    \/ MouseRelease(LeftButton)
    \/ Paint

ViewSpec == Init /\ [][ViewNext]_vars

---------------------------------------------------------------------------
(* Scanning a selection: one image, one drag, the runs and the pointer *)

SelNext ==
    \/ upload_image("a.png")
    \/ Len(workers) < MaxSelRuns /\ process
    \/ toggle_selection_mode
    \/ MousePress(LeftButton, Corner)
    \/ MouseMove(Opposite)
    \/ MouseRelease(LeftButton)
    \/ Paint
    \/ \E i \in 1..Len(workers) : on_progress_value_changed(i)
    \/ \E i \in 1..Len(workers) : on_preprocessed_image(i)
    \/ \E i \in 1..Len(workers) : on_words_detected(i)
    \/ \E i \in 1..Len(workers) : on_ocr_complete(i)
    \/ \E i \in 1..Len(workers) : on_ocr_error(i)

SelSpec == Init /\ [][SelNext]_vars

\* a started thread runs to its end (the engine returns) and the event loop
\* of the main thread runs the slots of the signals queued for it
FairSpec == SelSpec /\ WF_vars(\E i \in 1..Len(workers) : Slots(i))

---------------------------------------------------------------------------
(* Properties of the OCR runs *)

\* the runs in flight: started, and neither finished nor error emitted yet
InFlight == {i \in 1..Len(workers) : workers[i].pc # "done"}

\* how many times worker i has emitted `signal`
Count(i, signal) ==
    Cardinality({k \in 1..Len(workers[i].sent) : workers[i].sent[k] = signal})

\* C1: at most one OCR run is in flight at any time: whatever the user does
\* (Scan, loading by upload button or file explorer, page navigation, the
\* selection-mode toggle), no second worker is started before the one started
\* before it has emitted finished or error.
C1_AtMostOneRunInFlight == Cardinality(InFlight) <= 1

\* a pointer event on the viewer
PointerEvent ==
    \/ \E p \in PressPoints \cup MovePoints : MousePress(LeftButton, p)
    \/ \E p \in PressPoints \cup MovePoints : MouseMove(p)
    \/ MouseRelease(LeftButton)

\* the interaction mode: the three flags of the selection state machine
Mode(v) == <<v.drawing_selection, v.moving_selection, v.dragging_handle>>

\* C2: while an OCR run is in flight no pointer event on the viewer changes
\* selection_rect_original or the interaction mode, also when selection mode
\* was already enabled when Scan was pressed.
C2_NoSelectionInteractionInFlight ==
    [][(InFlight # {} /\ PointerEvent)
         => /\ viewer'.selection_rect_original = viewer.selection_rect_original
            /\ Mode(viewer') = Mode(viewer)]_vars

\* C3: the words a run delivers are applied to the viewer only if that run is
\* still the current one: it is the worker started last and the image it was
\* started for is still the loaded one.
C3_WordsOnlyFromCurrentRun ==
    [][\A i \in 1..Len(workers) :
          on_words_detected(i)
            => /\ i = app.ocr_worker
               /\ workers[i].image_path = app.image_path]_vars

\* C4: when a run fails (its error signal is handled), the viewer's word list
\* and selection rectangle are what they were when Scan started that run.
\* Stated for a run that had no other run beside it from its start to its
\* error, so that a failure is the run's own and not the overlap of C1.
C4_ErrorLeavesWordsAndSelection ==
    [][\A i \in 1..Len(workers) :
          (on_ocr_error(i) /\ workers[i].before.alone /\ i = Len(workers))
            => /\ viewer'.word_data = workers[i].before.word_data
               /\ viewer'.selection_rect_original = workers[i].before.selection]_vars

\* C5: every started run delivers exactly one terminal signal: finished comes
\* after exactly one words_detected, error after none, words_detected is never
\* emitted twice, nothing is emitted after the terminal signal, and the runs
\* in flight all reach their terminal signal (run() lets no exception escape).
C5_OneTerminalSignal ==
    /\ [][\A i \in 1..Len(workers) :
            /\ on_ocr_complete(i) => Count(i, "words_detected") = 1
            /\ on_ocr_error(i) => Count(i, "words_detected") = 0
            /\ on_words_detected(i) => Count(i, "words_detected") = 0
            /\ workers[i].pc = "done" => workers'[i] = workers[i]]_vars
    /\ (InFlight # {}) ~> (InFlight = {})

\* C5 witness: a run on a selection has emitted words_detected and then
\* progress 100, and finished is the one signal it can emit next
C5_Witness ==
    \E i \in 1..Len(workers) :
       /\ workers[i].pc = "progress"
       /\ workers[i].crop_rect # None
       /\ Count(i, "words_detected") = 1
       /\ run(workers[i]) = {Sig("finished", None, "done")}

\* the widgets a run keeps disabled are enabled and no selection is processed
Released(a) ==
    /\ a.process_btn /\ a.select_area_btn
    /\ a.zoom_in_btn /\ a.zoom_out_btn /\ a.zoom_reset_btn
    /\ a.explorer_widget /\ a.text_output /\ a.copy_btn
    /\ ~a.is_processing_selection
    /\ ~a.progress_bar_visible

\* C6: when a run ends, with finished or with error, the busy state is
\* released (Scan, Select Area, zoom buttons, file explorer and text controls
\* enabled, is_processing_selection false); so whenever Scan is disabled by a
\* run in flight, it is eventually enabled again.
C6_BusyReleased ==
    /\ [][\A i \in 1..Len(workers) :
            (on_ocr_complete(i) \/ on_ocr_error(i)) => Released(app')]_vars
    /\ (InFlight # {} /\ ~app.process_btn) ~> app.process_btn

\* C6 witness: a failed run on a selection has ended (its progress stopped
\* short of 100) and the busy state is released
C6_Witness ==
    /\ Len(workers) >= 1 /\ workers[1].pc = "done"
    /\ app.current_crop_rect # None
    /\ app.progress_bar_value \in {10, 50, 80}
    /\ Released(app)

---------------------------------------------------------------------------
(* Properties of the selection state machine *)

\* a drag is in progress: Drawing, Moving or Resizing
Active(v) ==
    v.drawing_selection \/ v.moving_selection \/ v.dragging_handle # NoHandle

\* Idle, with the drag anchor and the snapshot cleared
Idle(v) ==
    /\ ~Active(v)
    /\ v.drag_start_pos = None
    /\ v.drag_start_rect = None

\* C7: a release of the primary button in Drawing, Moving or Resizing (any
\* handle 0..7) clamps the selection to the image, returns to Idle with the
\* drag anchor and snapshot cleared, and emits selection_changed exactly once,
\* carrying whether a selection now exists.
C7_ReleaseFinalizes ==
    [][(Active(viewer) /\ MouseRelease(LeftButton))
         => /\ viewer'.selection_rect_original =
                  clamp_selection_to_image(viewer).selection_rect_original
            /\ Idle(viewer')
            /\ emitted' = <<[signal |-> "selection_changed",
                             arg |-> viewer'.selection_rect_original # None]>>]_vars

\* C8: the interaction modes are mutually exclusive in every reachable state:
\* at most one of drawing_selection, moving_selection and dragging_handle set.
C8_ModesExclusive ==
    /\ ~(viewer.drawing_selection /\ viewer.moving_selection)
    /\ ~(viewer.drawing_selection /\ viewer.dragging_handle # NoHandle)
    /\ ~(viewer.moving_selection /\ viewer.dragging_handle # NoHandle)

\* rectangle r lies inside an image of size w x h
Inside(r, w, h) ==
    /\ 0 <= r[1] /\ 0 <= r[2]
    /\ r[1] + r[3] <= w
    /\ r[2] + r[4] <= h

\* C9: whenever no drag is in progress and a selection exists, the selection
\* lies inside the loaded image: 0 <= x, 0 <= y, x + width <= image width,
\* y + height <= image height.
C9_CommittedSelectionInsideImage ==
    (/\ ~Active(viewer)
     /\ viewer.selection_rect_original # None
     /\ viewer.original_pixmap # None)
       => Inside(viewer.selection_rect_original,
                 viewer.original_pixmap[2], viewer.original_pixmap[3])

\* selection mode is off, there is no selection and no drag is in progress
Disabled(v) ==
    /\ ~v.selection_mode
    /\ v.selection_rect_original = None
    /\ ~Active(v)

\* C10: switching selection mode off, from any state, leaves no selection and
\* no drag in progress; from then on a pointer move or release (no new press)
\* neither creates or changes a selection nor emits selection_changed.
C10_DisableAbortsDrag ==
    [][/\ (viewer.selection_mode /\ toggle_selection_mode) => Disabled(viewer')
       /\ (Disabled(viewer) /\ ((\E p \in MovePoints : MouseMove(p))
                                \/ MouseRelease(LeftButton)))
            => (Disabled(viewer') /\ emitted' = <<>>)]_vars

\* C10 witness: selection mode was switched off in the middle of a drag (the
\* drag anchor is still set) and the viewer has no selection and no drag
C10_Witness ==
    /\ Disabled(viewer)
    /\ viewer.drag_start_pos \in PressPoints
    /\ viewer.drag_start_rect # None

---------------------------------------------------------------------------
(* clamp_selection_to_image on its own: every small image and every        *)
(* rectangle around it.  In this specification `emitted` records the call  *)
(* made in the last step and the rectangle it was given.                   *)

\* the rectangles given to the clamp: origins from left of / above the image
\* to beyond it, sizes from empty to larger than the image
ClampRects ==
    {<<x, y, w, h>> : x \in -1..(MaxImage + 1), y \in -1..(MaxImage + 1),
                      w \in 0..(MaxImage + 1), h \in 0..(MaxImage + 1)}

ClampInit ==
    /\ \E iw \in 1..MaxImage, ih \in 1..MaxImage, r \in ClampRects :
          viewer = [set_image(NewViewer, <<"image", iw, ih>>)
                      EXCEPT !.selection_mode = TRUE,
                             !.selection_rect_original = r]
    /\ app = NewApp
    /\ pdf = NewHandler
    /\ workers = <<>>
    /\ emitted = <<>>

ClampCall ==
    /\ viewer' = clamp_selection_to_image(viewer)
    /\ emitted' = <<[signal |-> "clamp_selection_to_image",
                     arg |-> viewer.selection_rect_original]>>
    /\ UNCHANGED <<app, pdf, workers>>

ClampSpec == ClampInit /\ [][ClampCall]_vars

\* C11: after clamp_selection_to_image, for every rectangle with non-negative
\* width and height and every image of at least 1x1 pixels, the selection has
\* 0 <= x, 0 <= y, x + width <= image width, y + height <= image height,
\* width >= 1 and height >= 1
C11_ClampedInsideImage ==
    [][ClampCall =>
         LET r == viewer'.selection_rect_original
         IN  /\ 0 <= r[1] /\ 0 <= r[2]
             /\ r[1] + r[3] <= viewer.original_pixmap[2]
             /\ r[2] + r[4] <= viewer.original_pixmap[3]
             /\ r[3] >= 1 /\ r[4] >= 1]_vars

\* C11 witness: the clamp was given a rectangle with a negative origin that is
\* larger than the image and has left the whole image selected
C11_Witness ==
    /\ emitted # <<>>
    /\ emitted[1].signal = "clamp_selection_to_image"
    /\ emitted[1].arg[1] < 0 /\ emitted[1].arg[2] < 0
    /\ emitted[1].arg[3] > viewer.original_pixmap[2]
    /\ emitted[1].arg[4] > viewer.original_pixmap[3]
    /\ viewer.selection_rect_original =
          <<0, 0, viewer.original_pixmap[2], viewer.original_pixmap[3]>>

---------------------------------------------------------------------------
(* The viewer widget on its own, driven through its public methods and its *)
(* events: set_image, the three zoom methods, resizes and pan drags.       *)

\* a wide image and a tall strip
WidgetFiles == {"a.png", "strip.png"}

\* sizes the layout may give the widget (its minimum size is WidgetSize)
WidgetSizes == {WidgetSize, <<600, 400>>}

SetImage(f) ==
    /\ viewer' = set_image(viewer, QPixmap(f))
    /\ emitted' = update_display_signals(viewer')
    /\ UNCHANGED <<app, pdf, workers>>

ZoomIn ==
    /\ viewer' = zoom_in(viewer)
    /\ emitted' = zoom_in_signals(viewer)
    /\ UNCHANGED <<app, pdf, workers>>

ZoomOut ==
    /\ viewer' = zoom_out(viewer)
    /\ emitted' = zoom_out_signals(viewer)
    /\ UNCHANGED <<app, pdf, workers>>

ZoomReset ==
    /\ viewer' = zoom_reset(viewer)
    /\ emitted' = zoom_reset_signals(viewer)
    /\ UNCHANGED <<app, pdf, workers>>

Resize(size) ==
    /\ viewer' = resizeEvent(viewer, size[1], size[2])
    /\ emitted' = update_display_signals(viewer')
    /\ UNCHANGED <<app, pdf, workers>>

\* a pointer move that keeps the pan offset within MaxPan
PanMove(pos) ==
    /\ MouseMove(pos)
    /\ Abs(viewer'.pan_offset_x) <= MaxPan
    /\ Abs(viewer'.pan_offset_y) <= MaxPan

WidgetNext ==
    \/ \E f \in WidgetFiles : SetImage(f)
    \/ ZoomIn
    \/ ZoomOut
    \/ ZoomReset
    \/ \E size \in WidgetSizes : Resize(size)
    \/ MousePress(RightButton, Centre)
    \/ \E p \in MovePoints : PanMove(p)
    \/ MouseRelease(RightButton)

WidgetSpec == Init /\ [][WidgetNext]_vars

---------------------------------------------------------------------------
(* Properties of the coordinate conversions and the zoom *)

\* image points taken to display coordinates and back
RoundTripPoints == {<<x, y>> : x \in 0..MaxPoint, y \in 0..MaxPoint}

\* display_to_original_coords(original_to_display_coords(p))
RoundTrip(v, p) ==
    LET d == original_to_display_coords(v, p[1], p[2])
    IN  display_to_original_coords(v, d[1], d[2])

\* C12: for every loaded image, zoom level, pan offset and integer image
\* point p, display_to_original_coords(original_to_display_coords(p)) differs
\* from p by at most 1 pixel on each axis
C12_RoundTripWithinOnePixel ==
    (viewer.original_pixmap # None /\ viewer.scale_factor[1] > 0) =>
        \A p \in RoundTripPoints :
            /\ Abs(RoundTrip(viewer, p)[1] - p[1]) <= 1
            /\ Abs(RoundTrip(viewer, p)[2] - p[2]) <= 1

\* C13: with an image loaded, after any sequence of set_image, resizes,
\* zoom_in, zoom_out and zoom_reset, scale_factor is strictly greater than 0
C13_ScaleFactorPositive ==
    viewer.original_pixmap # None => viewer.scale_factor[1] > 0

\* z within [min_zoom, max_zoom]
ZoomInRange(z) == ~ZoomLess(z, min_zoom) /\ ~ZoomLess(max_zoom, z)

\* C19: zoom_level stays within [0.1, 10.0]; zoom_in sets it to
\* min(10.0, zoom_level * 1.2) and zoom_out to max(0.1, zoom_level / 1.2);
\* both leave the zoom unchanged and emit no zoom_changed when no image is
\* loaded or when the zoom is already at the respective limit
C19_ZoomWithinLimits ==
    LET z    == viewer.zoom_level
        up   == ZoomTimes(z, ZoomStep)
        down == ZoomOver(z, ZoomStep)
    IN  /\ ZoomInRange(z)
        /\ viewer.original_pixmap # None =>
              /\ zoom_in(viewer).zoom_level =
                    (IF ZoomLess(up, max_zoom) THEN up ELSE max_zoom)
              /\ zoom_out(viewer).zoom_level =
                    (IF ZoomLess(min_zoom, down) THEN down ELSE min_zoom)
        /\ (viewer.original_pixmap = None \/ z = max_zoom) =>
              zoom_in(viewer) = viewer /\ zoom_in_signals(viewer) = <<>>
        /\ (viewer.original_pixmap = None \/ z = min_zoom) =>
              zoom_out(viewer) = viewer /\ zoom_out_signals(viewer) = <<>>

\* C19 witness: a zoom_in from 1.2^12 was cut off at the upper limit 10.0 and
\* has emitted zoom_changed(10.0)
C19_Witness ==
    /\ viewer.original_pixmap # None
    /\ viewer.zoom_level = max_zoom
    /\ emitted = <<[signal |-> "zoom_changed", arg |-> max_zoom]>>
    /\ viewer.scaled_pixmap[1] > viewer.width

\* C20: after zoom_reset, from any reachable state (any prior zoom and pan,
\* image loaded or not), zoom_level is 1.0 and the pan offset is (0, 0)
C20_ResetRestoresZoomAndPan ==
    /\ zoom_reset(viewer).zoom_level = ZoomOne
    /\ zoom_reset(viewer).pan_offset_x = 0
    /\ zoom_reset(viewer).pan_offset_y = 0

---------------------------------------------------------------------------
(* The word entries run() builds, on their own: a worker that has the      *)
(* engine's result, for every crop origin and result of both formats.  In  *)
(* this specification `emitted` holds the words_detected emit together     *)
(* with the result it was built from.                                      *)

\* crop rectangles of the worker: small origins and the origin (50, 30)
CropRects ==
    {<<x, y, 100, 100>> : x \in 0..MaxOrigin, y \in 0..MaxOrigin}
        \cup {<<50, 30, 100, 100>>}

\* what the engine may return for the worker's image
EngineResults(image_path) ==
    UNION {{DictResult(image_path, n, m), ListResult(image_path, n, m)} :
             n \in 0..MaxFragments, m \in 0..MaxFragments}

BuildInit ==
    /\ viewer = NewViewer
    /\ app = NewApp
    /\ pdf = NewHandler
    /\ \E c \in CropRects \cup {None} :
          workers = <<[pc |-> "build", image_path |-> "a.png", crop_rect |-> c,
                       sent |-> <<"progress_value", "progress_value",
                                  "progress_value">>,
                       before |-> [word_data |-> <<>>, selection |-> c,
                                   alone |-> TRUE]]>>
    /\ emitted = <<>>

BuildWords ==
    \E page_result \in EngineResults(workers[1].image_path) :
        /\ emitted' = <<[signal |-> "words_detected",
                         arg    |-> word_data_of(workers[1].crop_rect, page_result),
                         result |-> page_result]>>
        /\ UNCHANGED <<viewer, app, pdf, workers>>

BuildSpec == BuildInit /\ [][BuildWords]_vars

\* the polygons of a result, by word number (empty: the word has none)
ResultPolygons(page_result) ==
    IF page_result.format = "dict"
    THEN [k \in 1..Len(page_result.rec_texts) |->
            IF k <= Len(page_result.dt_polys) THEN page_result.dt_polys[k]
            ELSE <<>>]
    ELSE [k \in 1..Len(page_result.detections) |-> page_result.detections[k].bbox]

\* C14: for a run with crop rect (x, y, w, h) every polygon point (px, py)
\* returned by the engine is stored in the word entry as (px + x, py + y), in
\* the dictionary and in the list result format; for a run without crop rect
\* the polygons are stored unchanged
C14_CropOffsetAddedBack ==
    emitted # <<>> =>
        LET polys == ResultPolygons(emitted[1].result)
            words == emitted[1].arg
            c     == workers[1].crop_rect
        IN  /\ Len(words) = Len(polys)
            /\ \A k \in 1..Len(polys) :
                  polys[k] # <<>> =>
                    /\ words[k].bbox # None
                    /\ Len(words[k].bbox) = Len(polys[k])
                    /\ \A q \in 1..Len(polys[k]) :
                          words[k].bbox[q] =
                            IF c # None
                            THEN <<polys[k][q][1] + c[1], polys[k][q][2] + c[2]>>
                            ELSE polys[k][q]

\* C14 witness: a run cropped at (50, 30) has built, from a list-format
\* result, the entry of the polygon (10,10) (20,10) (20,20) (10,20) as
\* (60,40) (70,40) (70,50) (60,50)
C14_Witness ==
    /\ emitted # <<>>
    /\ emitted[1].result.format = "list"
    /\ workers[1].crop_rect = <<50, 30, 100, 100>>
    /\ emitted[1].result.detections # <<>>
    /\ emitted[1].result.detections[1].bbox =
          << <<10, 10>>, <<20, 10>>, <<20, 20>>, <<10, 20>> >>
    /\ emitted[1].arg[1].bbox = << <<60, 40>>, <<70, 40>>, <<70, 50>>, <<60, 50>> >>

---------------------------------------------------------------------------
(* Scan with selections around the minimum size: in a.png a drag from      *)
(* Corner selects 20x20 when it ends at Valid, 19x50 at Narrow and 300x200 *)
(* at Opposite.  The specification ends where the runs are started: the    *)
(* worker threads are left unscheduled.                                    *)

Valid == <<70, 120>>

Narrow == <<69, 150>>

ScanMovePoints == {Valid, Narrow, Opposite}

ScanNext ==
    \/ upload_image("a.png")
    \/ Len(workers) < MaxScanRuns /\ process
    \/ toggle_selection_mode
    \/ MousePress(LeftButton, Corner)
    \/ \E p \in ScanMovePoints : MouseMove(p)
    \/ MouseRelease(LeftButton)

ScanSpec == Init /\ [][ScanNext]_vars

\* C15: Scan submits the selection as crop rect exactly when a selection
\* exists with width >= 20 and height >= 20; with no selection or a smaller
\* one it starts a run on the full image (no crop rect), and it always starts
\* a run
C15_ScanSubmitsValidSelection ==
    [][(process /\ app.image_path # NoPath) =>
         LET sel == viewer.selection_rect_original
             w   == workers'[Len(workers')]
         IN  /\ Len(workers') = Len(workers) + 1
             /\ w.pc = "start" /\ w.image_path = app.image_path
             /\ IF sel # None /\ sel[3] >= 20 /\ sel[4] >= 20
                THEN w.crop_rect = sel
                ELSE w.crop_rect = None]_vars

\* C15 witness: a run on the 20x20 selection is in flight
C15_Witness ==
    \E i \in 1..Len(workers) :
        /\ workers[i].pc # "done"
        /\ workers[i].crop_rect = <<50, 50, 20, 20>>
        /\ app.is_processing_selection

---------------------------------------------------------------------------
(* The word boxes of the viewer: word lists set with set_word_data, clicks *)
(* and pointer moves over them, clicks with selection mode on and off      *)

\* word entries: two overlapping boxes (image coordinates 10..30 and 20..40
\* on both axes) and an entry without polygon
HitEntries ==
    {[text |-> "first",
      bbox |-> << <<10, 10>>, <<30, 10>>, <<30, 30>>, <<10, 30>> >>],
     [text |-> "second",
      bbox |-> << <<20, 20>>, <<40, 20>>, <<40, 40>>, <<20, 40>> >>],
     [text |-> "bare", bbox |-> None]}

\* the sequences over S of length n
RECURSIVE SeqsOfLen(_, _)
SeqsOfLen(S, n) ==
    IF n = 0 THEN {<<>>}
    ELSE {Append(q, e) : q \in SeqsOfLen(S, n - 1), e \in S}

\* the word lists: every list of up to MaxHitWords entries, each entry with
\* its position as index
HitWordLists ==
    {[k \in 1..Len(q) |-> [text |-> q[k].text, index |-> k - 1, bbox |-> q[k].bbox]] :
        q \in UNION {SeqsOfLen(HitEntries, n) : n \in 0..MaxHitWords}}

\* pointer positions for a.png in the 400x400 widget (image point plus
\* (0, 50)): inside the first box only, inside both, inside the second only,
\* outside both
HitPoints == {<<15, 65>>, <<25, 75>>, <<35, 85>>, <<100, 150>>}

SetWordData(words) ==
    /\ viewer' = set_word_data(viewer, words)
    /\ emitted' = <<>>
    /\ UNCHANGED <<app, pdf, workers>>

SetSelectionMode(enabled) ==
    /\ viewer' = set_selection_mode(viewer, enabled)
    /\ emitted' = <<>>
    /\ UNCHANGED <<app, pdf, workers>>

\* a pointer move over the word boxes (the drags of selection mode are the
\* subject of the viewer specifications above)
HoverMove(pos) ==
    /\ ~viewer.selection_mode
    /\ MouseMove(pos)

HitNext ==
    \/ SetImage("a.png")
    \/ \E words \in HitWordLists : SetWordData(words)
    \/ \E enabled \in BOOLEAN : SetSelectionMode(enabled)
    \/ \E p \in HitPoints : MousePress(LeftButton, p)
    \/ \E p \in HitPoints : HoverMove(p)

HitSpec == Init /\ [][HitNext]_vars

\* pos strictly inside the axis-parallel box with corner points polygon
InsideBox(pos, polygon) ==
    /\ \E q \in 1..Len(polygon) : polygon[q][1] < pos[1]
    /\ \E q \in 1..Len(polygon) : polygon[q][1] > pos[1]
    /\ \E q \in 1..Len(polygon) : polygon[q][2] < pos[2]
    /\ \E q \in 1..Len(polygon) : polygon[q][2] > pos[2]

\* the words (by position in the list) whose display polygon contains pos
WordsContaining(v, pos) ==
    {i \in 1..Len(v.word_data) :
        /\ v.word_data[i].bbox # None
        /\ InsideBox(pos, ScaledPoints(v, v.word_data[i].bbox))}

\* the largest element of a non-empty set of numbers
Highest(S) == CHOOSE i \in S : \A j \in S : i >= j

\* C16: with selection mode off, a primary-button click selects the word with
\* the highest list index among the words whose display polygon contains the
\* click point; words without polygon are never selected; if no polygon
\* contains the point no word is selected after the click
C16_TopmostWordSelected ==
    ~viewer.selection_mode =>
        \A p \in HitPoints :
            LET hits  == WordsContaining(viewer, p)
                index == mousePressEvent(viewer, LeftButton, p).selected_word_index
            IN  /\ hits # {} => index = Highest(hits) - 1
                /\ hits = {} => index = NoIndex
                /\ index # NoIndex => viewer.word_data[index + 1].bbox # None

\* C16 witness: a click where both boxes of a two-word list overlap has
\* selected the second word
C16_Witness ==
    /\ ~viewer.selection_mode
    /\ Len(viewer.word_data) = 2
    /\ WordsContaining(viewer, <<25, 75>>) = {1, 2}
    /\ viewer.selected_word_index = 1
    /\ emitted = <<[signal |-> "word_clicked", arg |-> viewer.word_data[2]]>>

\* C17: set_word_data clears the selected and the hovered word index, so that
\* selected_word_index and hovered_word_index are always None or the index of
\* an entry of the current word list
C17_IndicesWithinWordList ==
    /\ viewer.selected_word_index # NoIndex =>
          viewer.selected_word_index < Len(viewer.word_data)
    /\ viewer.hovered_word_index # NoIndex =>
          viewer.hovered_word_index < Len(viewer.word_data)

\* C18: with selection mode off, a click that hits a word emits word_clicked
\* with that word's entry and makes it the selected word; a click on empty
\* space emits word_clicked(None) and clears the selected index exactly when
\* a word was selected before; with no word selected it emits nothing
C18_ClickSignals ==
    ~viewer.selection_mode =>
        \A p \in HitPoints :
            LET hits    == WordsContaining(viewer, p)
                after   == mousePressEvent(viewer, LeftButton, p)
                signals == mousePressEvent_signals(viewer, LeftButton, p)
            IN  IF hits # {}
                THEN /\ signals = <<[signal |-> "word_clicked",
                                     arg |-> viewer.word_data[Highest(hits)]]>>
                     /\ after.selected_word_index = Highest(hits) - 1
                ELSE IF viewer.selected_word_index # NoIndex
                THEN /\ signals = <<[signal |-> "word_clicked", arg |-> None]>>
                     /\ after.selected_word_index = NoIndex
                ELSE /\ signals = <<>>
                     /\ after = viewer

\* C18 witness: a click on empty space has deselected the selected word and
\* emitted word_clicked(None)
C18_Witness ==
    /\ ~viewer.selection_mode
    /\ viewer.word_data # <<>>
    /\ viewer.selected_word_index = NoIndex
    /\ emitted = <<[signal |-> "word_clicked", arg |-> None]>>

---------------------------------------------------------------------------
(* Loading an image into a viewer that is zoomed in, panned and shows word *)
(* boxes, one of them selected or hovered                                  *)

\* one word box, under the pointer position OverWord while the image is not
\* panned
PanWords ==
    << [text |-> "first", index |-> 0,
        bbox |-> << <<10, 10>>, <<30, 10>>, <<30, 30>>, <<10, 30>> >>] >>

OverWord == <<15, 65>>

ResetNext ==
    \/ \E f \in ImageFiles : SetImage(f)
    \/ ZoomIn
    \/ SetWordData(PanWords)
    \/ \E p \in HitPoints : MousePress(LeftButton, p)
    \/ \E p \in HitPoints : ~viewer.is_panning /\ HoverMove(p)
    \/ MousePress(RightButton, Centre)
    \/ PanMove(Opposite)
    \/ MouseRelease(RightButton)

ResetSpec == Init /\ [][ResetNext]_vars

\* C21: set_image resets zoom_level to 1.0 and the pan offset to (0, 0) and
\* empties the word list together with the selected and the hovered word
\* index, from any prior state
C21_SetImageResets ==
    \A f \in ImageFiles \cup {PdfPagePaths[k] : k \in 1..Len(PdfPagePaths)} :
        LET after == set_image(viewer, QPixmap(f))
        IN  /\ after.original_pixmap = QPixmap(f)
            /\ after.zoom_level = ZoomOne
            /\ after.pan_offset_x = 0 /\ after.pan_offset_y = 0
            /\ after.word_data = <<>>
            /\ after.selected_word_index = NoIndex
            /\ after.hovered_word_index = NoIndex

\* C21 witness: set_image has just run (zoom_changed(1.0) with an empty word
\* list) in a viewer that had been panned: the pan offset is back at (0, 0)
C21_Witness ==
    /\ emitted = <<[signal |-> "zoom_changed", arg |-> ZoomOne]>>
    /\ viewer.pan_start_offset_x # 0
    /\ viewer.pan_offset_x = 0 /\ viewer.pan_offset_y = 0
    /\ viewer.zoom_level = ZoomOne
    /\ viewer.word_data = <<>>

---------------------------------------------------------------------------
(* The word list at the start of a run *)

\* C22: whenever Scan starts a run (here: while no other run is in flight),
\* the word list of the viewer is empty from the start of that run, so that
\* the words of the previous run are not shown during the new run
C22_WordListClearedAtScan ==
    [][(InFlight = {} /\ Len(workers') = Len(workers) + 1)
            => viewer'.word_data = <<>>]_vars

---------------------------------------------------------------------------
(* Resizing by the top-right handle, across the left and the bottom edge *)

\* for the selection (50, 50, 300, 200) of a.png: its top-right handle, and a
\* pointer position left of its left edge and below its bottom edge
TopRight == <<350, 100>>

Beyond == <<20, 330>>

ResizeNext ==
    \/ upload_image("a.png")
    \/ toggle_selection_mode
    \/ \E p \in {Corner, TopRight} : MousePress(LeftButton, p)
    \/ \E p \in {Opposite, Beyond} : MouseMove(p)
    \/ MouseRelease(LeftButton)
    \/ Paint

ResizeSpec == Init /\ [][ResizeNext]_vars

\* C23: an existing selection has width >= 0 and height >= 0 in every state,
\* also in the middle of a resize drag; and a drag of handle 2 (top-right) to
\* a pointer left of the snapshot's left edge gives a rect whose x is the
\* pointer's original-space x and whose width is the snapshot's x minus it
C23_SelectionNeverNegative ==
    /\ viewer.selection_rect_original # None
          => /\ viewer.selection_rect_original[3] >= 0
             /\ viewer.selection_rect_original[4] >= 0
    /\ (viewer.dragging_handle = 2 /\ viewer.drag_start_rect # None)
          => \A p \in {Corner, Centre, TopRight, Opposite, Beyond} :
               LET curr_orig == display_to_original_coords(viewer, p[1], p[2])
                   rect == resize_selection_with_handle(viewer, p).selection_rect_original
               IN  curr_orig[1] < viewer.drag_start_rect[1]
                     => /\ rect[1] = curr_orig[1]
                        /\ rect[3] = viewer.drag_start_rect[1] - curr_orig[1]
                        /\ rect[3] >= 0 /\ rect[4] >= 0

\* C23 witness: in the middle of a drag of handle 2 the pointer is at Beyond,
\* left of the snapshot's left edge: the rect starts at the pointer's x
C23_Witness ==
    /\ viewer.dragging_handle = 2
    /\ viewer.drag_start_rect = <<50, 50, 300, 200>>
    /\ viewer.selection_rect_original[1] =
           display_to_original_coords(viewer, Beyond[1], Beyond[2])[1]
    /\ viewer.selection_rect_original[1] < viewer.drag_start_rect[1]
    /\ viewer.selection_rect_original[3] =
           viewer.drag_start_rect[1] - viewer.selection_rect_original[1]

---------------------------------------------------------------------------
(* The geometry a pointer-down position is tested against *)

\* C24: the hit-test of a pointer-down position against the handles uses the
\* selection rectangle as it is at the time of the press, converted with the
\* current zoom and pan: from Idle in selection mode, also once the widget
\* has been repainted, the handle found at a position is the handle that the
\* current selection has there (none when there is no selection)
C24_HitTestUsesCurrentGeometry ==
    (viewer.selection_mode /\ Idle(viewer))
        => \A p \in {Corner, Centre, TopRight, Opposite, Beyond} :
             find_handle_at_pos(paintEvent(viewer), p)
                = find_handle_at_pos(update_selection_handles(viewer), p)

---------------------------------------------------------------------------
(* Paging through a PDF that has more pages than the page cache holds *)

CacheNext ==
    \/ \E f \in {"book.pdf", "doc.pdf", "a.png"} : upload_image(f)
    \/ navigate_to_prev_page
    \/ navigate_to_next_page

CacheSpec == Init /\ [][CacheNext]_vars

\* the temp paths of the cached pages
CachedPaths(h) == {h.pdf_page_cache[i][2] : i \in 1..Len(h.pdf_page_cache)}

\* C25: the page cache never holds more than 10 entries, a page in the cache
\* is returned without being rendered again (the cache and the files on disk
\* stay as they are and the cached path is the one shown), and an eviction
\* removes the temp file of the evicted page together with its entry: the
\* rendered images on disk are those of the cached pages
C25_CacheBounded ==
    /\ Len(pdf.pdf_page_cache) <= MAX_CACHE_SIZE
    /\ Cardinality(CachedPages(pdf)) = Len(pdf.pdf_page_cache)
    /\ \A k \in CachedPages(pdf) :
          LET h == load_pdf_page_display(pdf, k)
          IN  /\ h.pdf_page_cache = pdf.pdf_page_cache
              /\ h.temp_files = pdf.temp_files
              /\ h.current_page_number = k
    /\ pdf.temp_files = CachedPaths(pdf)
    /\ \A k \in 0..(pdf.total_pdf_pages - 1) :
          (k \notin CachedPages(pdf) /\ Len(pdf.pdf_page_cache) >= MAX_CACHE_SIZE)
             => LET h == load_pdf_page_display(pdf, k)
                    gone == CachedPages(pdf) \ CachedPages(h)
                IN  /\ Cardinality(gone) = 1
                    /\ \A g \in gone : CachedPath(pdf, g) \notin h.temp_files

\* C25 witness: after paging past the tenth page the cache is full, page 0
\* has been evicted and its temp file is gone
C25_Witness ==
    /\ pdf.current_pdf_path = "book.pdf"
    /\ Len(pdf.pdf_page_cache) = MAX_CACHE_SIZE
    /\ pdf.current_page_number = MAX_CACHE_SIZE
    /\ 0 \notin CachedPages(pdf)
    /\ PagePath("book.pdf", 0) \notin pdf.temp_files
    /\ app.image_path = PagePath("book.pdf", MAX_CACHE_SIZE)

\* C26: eviction is FIFO: a page inserted into a full cache evicts the entry
\* inserted earliest among the cached pages, whatever the order of navigation
C26_EvictionIsFifo ==
    [][(/\ Len(pdf.pdf_page_cache) >= MAX_CACHE_SIZE
        /\ pdf'.current_pdf_path = pdf.current_pdf_path
        /\ pdf'.pdf_page_cache # pdf.pdf_page_cache)
          => CachedPages(pdf) \ CachedPages(pdf') = {pdf.pdf_page_cache[1][1]}]_vars

---------------------------------------------------------------------------
(* Files that fail to load, after an image or a PDF page has been loaded *)

FailingFiles == CorruptImages \cup LockedPdfs \cup EmptyPdfs \cup BrokenPdfs

FailNext ==
    \/ \E f \in {"a.png", "doc.pdf"} \cup FailingFiles : upload_image(f)
    \/ \E f \in {"a.png", "doc.pdf"} \cup FailingFiles : on_file_selected(f)
    \/ navigate_to_prev_page
    \/ navigate_to_next_page
    \/ Len(workers) < MaxScanRuns /\ process
    \/ toggle_selection_mode
    \/ MousePress(LeftButton, Corner)
    \/ MouseMove(Opposite)
    \/ MouseRelease(LeftButton)

FailSpec == Init /\ [][FailNext]_vars

\* the raster file at image_path is on disk: an image file of the user, or a
\* rendered page that has not been removed
RasterExists(a, h) == a.image_path \in ImageFiles \cup h.temp_files

\* C27: a load that fails (corrupt image, password-protected PDF, PDF with no
\* pages, PDF that cannot be opened) mutates nothing: the viewer's image, word
\* list and selection, image_path and the raster file it points to remain
\* those of the image loaded before
C27_FailedLoadMutatesNothing ==
    [][(/\ app.image_path # NoPath
        /\ RasterExists(app, pdf)
        /\ \E f \in FailingFiles : upload_image(f))
          => /\ viewer'.original_pixmap = viewer.original_pixmap
             /\ viewer'.word_data = viewer.word_data
             /\ viewer'.selection_rect_original = viewer.selection_rect_original
             /\ app'.image_path = app.image_path
             /\ RasterExists(app', pdf')]_vars

---------------------------------------------------------------------------
(* The progress bar during a run *)

\* C28: from the moment Scan is pressed until the run ends the values of the
\* progress bar form an increasing sequence: while a run is in flight the
\* value never decreases, and it becomes 100 only by a run that goes on to
\* emit finished
C28_ProgressNeverDecreases ==
    [][InFlight # {}
         => /\ app'.progress_bar_value >= app.progress_bar_value
            /\ (app'.progress_bar_value = 100 /\ app.progress_bar_value # 100)
                  => \E i \in InFlight : /\ workers'[i].pc = "progress"
                                         /\ run(workers'[i]) = {Sig("finished", None, "done")}]_vars

---------------------------------------------------------------------------
(* Panning with the middle or the right button, also in the middle of a drag *)

PanNext ==
    \/ SetImage("a.png")
    \/ SetWordData(PanWords)
    \/ \E enabled \in BOOLEAN : SetSelectionMode(enabled)
    \/ MousePress(LeftButton, Corner)
    \/ \E button \in {MiddleButton, RightButton} : MousePress(button, Centre)
    \/ PanMove(Opposite)
    \/ ~viewer.is_panning /\ HoverMove(OverWord)
    \/ \E button \in {LeftButton, MiddleButton, RightButton} : MouseRelease(button)

PanSpec == Init /\ [][PanNext]_vars

\* C29: a press of the middle or the right button starts panning whatever the
\* selection mode and the drag in progress; while panning a pointer move
\* changes the pan offset only, to the offset at the press plus the pointer's
\* displacement in display pixels since the press, and leaves the selection
\* rectangle, the hovered word and the interaction mode as they are
C29_NonPrimaryButtonPans ==
    /\ \A button \in {MiddleButton, RightButton} :
       \A p \in {Corner, Centre, Opposite, OverWord} :
          mousePressEvent(viewer, button, p)
             = [viewer EXCEPT !.is_panning = TRUE,
                              !.pan_start_pos = p,
                              !.pan_start_offset_x = viewer.pan_offset_x,
                              !.pan_start_offset_y = viewer.pan_offset_y]
    /\ viewer.is_panning
         => \A p \in {Corner, Centre, Opposite, OverWord} :
              mouseMoveEvent(viewer, p)
                 = [viewer EXCEPT
                      !.pan_offset_x = viewer.pan_start_offset_x
                                          + (p[1] - viewer.pan_start_pos[1]),
                      !.pan_offset_y = viewer.pan_start_offset_y
                                          + (p[2] - viewer.pan_start_pos[2])]

\* C29 witness: a pan started in the middle of a Drawing drag, in selection
\* mode, has moved the view by the pointer's displacement from Centre to
\* Opposite, and the selection drawn so far is still there
C29_Witness ==
    /\ viewer.is_panning
    /\ viewer.selection_mode
    /\ viewer.drawing_selection
    /\ viewer.selection_rect_original # None
    /\ viewer.pan_start_pos = Centre
    /\ viewer.pan_offset_x = viewer.pan_start_offset_x + (Opposite[1] - Centre[1])
    /\ viewer.pan_offset_y = viewer.pan_start_offset_y + (Opposite[2] - Centre[2])

---------------------------------------------------------------------------
(* The transition a primary-button press chooses from Idle *)

\* the transition of the priority order for a press at pos: Resizing by the
\* handle of the current selection at pos, else Moving when pos is inside the
\* selection, else Drawing with pos as anchor and no selection
PressByPriority(v, pos) ==
    LET handle_idx == find_handle_at_pos(update_selection_handles(v), pos)
    IN  IF handle_idx # NoHandle
        THEN [v EXCEPT !.dragging_handle = handle_idx,
                       !.drag_start_pos = pos,
                       !.drag_start_rect = v.selection_rect_original]
        ELSE IF point_in_selection(v, pos)
        THEN [v EXCEPT !.moving_selection = TRUE,
                       !.drag_start_pos = pos,
                       !.drag_start_rect = v.selection_rect_original]
        ELSE [v EXCEPT !.drawing_selection = TRUE,
                       !.drag_start_pos = pos,
                       !.selection_rect_original = None]

\* C30: a primary-button press in selection mode from Idle enters Resizing
\* (with the handle and a snapshot of the rect) when the position is inside
\* one of the 8 handle rects of the selection, also when it is inside the
\* selection as well; otherwise Moving (with a snapshot) when it is inside the
\* selection's display rect; otherwise Drawing, anchored at the position,
\* with any existing selection cleared (stated for the widget as it is once
\* it has been repainted)
C30_PressPriority ==
    (viewer.selection_mode /\ Idle(viewer))
        => \A p \in {Corner, Centre, TopRight, Opposite, Beyond} :
             mousePressEvent(paintEvent(viewer), LeftButton, p)
                = PressByPriority(paintEvent(viewer), p)

---------------------------------------------------------------------------
(* resize_selection_with_handle on its own: a.png with a selection whose   *)
(* handle h has been pressed, and pointer positions on every side of it.   *)
(* `emitted` records the call made in the last step and its position.      *)

\* the selections whose handles are pressed (original coordinates)
DragRects == {<<100, 100, 100, 50>>, <<50, 50, 300, 200>>}

\* pointer positions: left of, inside and right of the selections, above,
\* inside and below them
DragPoints == {<<x, y>> : x \in {20, 170, 380}, y \in {80, 175, 340}}

\* the display position of handle h: the middle of its hit rectangle
HandleCentre(v, h) ==
    LET q == HandleRects(get_selection_display_rect(v))[h + 1]
    IN  <<q[1] + handle_size \div 2, q[2] + handle_size \div 2>>

\* the viewer after a selection r has been drawn and committed
Selected(r) ==
    update_selection_handles(
        [set_image(NewViewer, QPixmap("a.png"))
            EXCEPT !.selection_mode = TRUE, !.selection_rect_original = r])

HandleInit ==
    /\ \E r \in DragRects, h \in 0..7 :
          viewer = mousePressEvent(Selected(r), LeftButton, HandleCentre(Selected(r), h))
    /\ app = NewApp
    /\ pdf = NewHandler
    /\ workers = <<>>
    /\ emitted = <<>>

HandleDrag ==
    \E p \in DragPoints :
        /\ viewer' = mouseMoveEvent(viewer, p)
        /\ emitted' = <<[signal |-> "resize_selection_with_handle", arg |-> p]>>
        /\ UNCHANGED <<app, pdf, workers>>

HandleSpec == HandleInit /\ [][HandleDrag]_vars

\* the x and the y coordinates of the edges of rectangle r
XEdges(r) == {r[1], r[1] + r[3]}

YEdges(r) == {r[2], r[2] + r[4]}

\* C31: on every pointer move of a resize with handle h only the edges next
\* to h track the pointer, and the opposite edges of the snapshot stay edges
\* of the rect: a corner handle keeps the opposite corner, handles 1 and 5
\* leave x and width as in the snapshot, handles 3 and 7 leave y and height
\* as in the snapshot, also when the drag inverts the rectangle
C31_OppositeEdgesFixed ==
    [][HandleDrag =>
         LET h    == viewer.dragging_handle
             snap == viewer.drag_start_rect
             rect == viewer'.selection_rect_original
             curr == display_to_original_coords(viewer, emitted'[1].arg[1],
                                                emitted'[1].arg[2])
         IN  /\ h \in 0..7 /\ viewer'.dragging_handle = h
             /\ viewer'.drag_start_rect = snap
             /\ h \in {0, 6, 7} => /\ snap[1] + snap[3] \in XEdges(rect)
                                   /\ curr[1] \in XEdges(rect)
             /\ h \in {2, 3, 4} => /\ snap[1] \in XEdges(rect)
                                   /\ curr[1] \in XEdges(rect)
             /\ h \in {1, 5}    => rect[1] = snap[1] /\ rect[3] = snap[3]
             /\ h \in {0, 1, 2} => /\ snap[2] + snap[4] \in YEdges(rect)
                                   /\ curr[2] \in YEdges(rect)
             /\ h \in {4, 5, 6} => /\ snap[2] \in YEdges(rect)
                                   /\ curr[2] \in YEdges(rect)
             /\ h \in {3, 7}    => rect[2] = snap[2] /\ rect[4] = snap[4]
             /\ rect[3] >= 0 /\ rect[4] >= 0]_vars

\* C31 witness: handle 2 (top-right) of (100, 100, 100, 50) has been dragged
\* to display (20, 340), left of the left edge and below the bottom edge:
\* the rect is inverted in both directions around the bottom-left corner
C31_Witness ==
    /\ emitted = <<[signal |-> "resize_selection_with_handle", arg |-> <<20, 340>>]>>
    /\ viewer.dragging_handle = 2
    /\ viewer.drag_start_rect = <<100, 100, 100, 50>>
    /\ viewer.selection_rect_original = <<20, 150, 80, 140>>

---------------------------------------------------------------------------
(* move_selection on its own: images shown at different scale factors with *)
(* a selection that has been pressed in its middle or, where the selection *)
(* covers it, at the widget's origin.  `emitted` records the call made in  *)
(* the last step and its position.                                         *)

\* the selections that are moved (original coordinates, inside both images)
MoveRects == {<<100, 100, 100, 50>>, <<40, 5, 61, 43>>}

\* pointer positions of the move
MoveToPoints == {<<x, y>> : x \in {20, 170, 205, 380}, y \in {80, 175, 210, 340}}

\* the viewers in which the move happens: a.png at zoom 1, 1.2, 1.44 and
\* 1/1.2 (scale factors 400/400, 480/400, 576/400, 333/400; at 1.44 the image
\* is larger than the widget in both directions) and b.png at zoom 1 (400/200)
MoveViewers ==
    LET a == set_image(NewViewer, QPixmap("a.png"))
        b == set_image(NewViewer, QPixmap("b.png"))
    IN  {[v EXCEPT !.selection_mode = TRUE] :
            v \in {a, b, zoom_in(a), zoom_in(zoom_in(a)), zoom_out(a)}}

\* the middle of the selection in display coordinates
SelectionCentre(v) ==
    LET q == get_selection_display_rect(v)
    IN  <<q[1] + q[3] \div 2, q[2] + q[4] \div 2>>

MoveInit ==
    /\ \E v \in MoveViewers, r \in MoveRects :
          LET sel == update_selection_handles([v EXCEPT !.selection_rect_original = r])
          IN  \E p \in {SelectionCentre(sel), <<0, 0>>} :
                 /\ viewer = mousePressEvent(sel, LeftButton, p)
                 /\ viewer.moving_selection
    /\ app = NewApp
    /\ pdf = NewHandler
    /\ workers = <<>>
    /\ emitted = <<>>

MoveDrag ==
    \E p \in MoveToPoints \cup {viewer.drag_start_pos} :
        /\ viewer' = mouseMoveEvent(viewer, p)
        /\ emitted' = <<[signal |-> "move_selection", arg |-> p]>>
        /\ UNCHANGED <<app, pdf, workers>>

MoveSpec == MoveInit /\ [][MoveDrag]_vars

\* C32: on every pointer move of a move drag the selection is the snapshot
\* translated by the pointer's display-space displacement since the press
\* divided by scale_factor, its coordinates truncated to integers; width and
\* height stay those of the snapshot, and with the pointer back at the press
\* position the selection is the snapshot again
C32_MoveTranslatesSnapshot ==
    [][MoveDrag =>
         LET snap == viewer.drag_start_rect
             rect == viewer'.selection_rect_original
             pos  == emitted'[1].arg
             dx   == pos[1] - viewer.drag_start_pos[1]
             dy   == pos[2] - viewer.drag_start_pos[2]
             num  == viewer.scale_factor[1]
             den  == viewer.scale_factor[2]
         IN  /\ viewer.moving_selection /\ viewer'.moving_selection
             /\ viewer'.drag_start_rect = snap
             /\ rect[3] = snap[3] /\ rect[4] = snap[4]
             /\ rect[1] = Trunc(snap[1] * num + dx * den, num)
             /\ rect[2] = Trunc(snap[2] * num + dy * den, num)
             /\ Abs(rect[1] * num - (snap[1] * num + dx * den)) < num
             /\ Abs(rect[2] * num - (snap[2] * num + dy * den)) < num
             /\ pos = viewer.drag_start_pos => rect = snap]_vars

---------------------------------------------------------------------------
(* Drawing a selection on its own: images shown at different zoom levels,  *)
(* in selection mode and with no selection, on which the primary button    *)
(* has been pressed at an anchor.  `emitted` records the call made in the  *)
(* last step and its position.                                             *)

\* anchors of the draw drags: the widget's origin, the four corners of the
\* display rectangle (100,100)-(300,150) and a point below the image
DrawAnchors == {<<0, 0>>, <<100, 100>>, <<300, 150>>, <<100, 150>>, <<300, 100>>,
                <<200, 390>>}

\* pointer positions of the draw drags
DrawPoints == DrawAnchors \cup {<<399, 399>>, <<101, 100>>}

\* wide.png (400x100) zoomed in four times (zoom 1.2^4, shown 829x207),
\* a.png at zoom 1 and b.png at zoom 1 (scale factor 2)
DrawViewers ==
    LET wide == set_image(NewViewer, QPixmap("wide.png"))
        a    == set_image(NewViewer, QPixmap("a.png"))
        b    == set_image(NewViewer, QPixmap("b.png"))
    IN  {[v EXCEPT !.selection_mode = TRUE] :
            v \in {zoom_in(zoom_in(zoom_in(zoom_in(wide)))), a, b}}

DrawInit ==
    /\ \E v \in DrawViewers, p \in DrawAnchors :
          viewer = mousePressEvent(v, LeftButton, p)
    /\ app = NewApp
    /\ pdf = NewHandler
    /\ workers = <<>>
    /\ emitted = <<>>

DrawDrag ==
    \E p \in DrawPoints :
        /\ viewer.drawing_selection
        /\ viewer' = mouseMoveEvent(viewer, p)
        /\ emitted' = <<[signal |-> "update_selection_from_drag", arg |-> p]>>
        /\ UNCHANGED <<app, pdf, workers>>

DrawRelease ==
    /\ viewer.drawing_selection
    /\ viewer' = mouseReleaseEvent(viewer, LeftButton)
    /\ emitted' = <<[signal |-> "mouseReleaseEvent", arg |-> None]>>
    /\ UNCHANGED <<app, pdf, workers>>

DrawNext == DrawDrag \/ DrawRelease

DrawSpec == DrawInit /\ [][DrawNext]_vars

\* C33: on every pointer move of a draw drag the selection is the bounding
\* box of the anchor and the pointer, both converted to original
\* coordinates: its left and top are the smaller coordinates, its right
\* and bottom the larger ones, and the drag with anchor and pointer
\* exchanged gives the same rectangle; the release stores that rectangle
\* clamped to the image, which is the rectangle itself when it lies inside
\* the image with at least one pixel in each direction
C33_DrawIsBoundingBox ==
    [][/\ DrawDrag =>
            LET a    == viewer.drag_start_pos
                p    == emitted'[1].arg
                s    == display_to_original_coords(viewer, a[1], a[2])
                e    == display_to_original_coords(viewer, p[1], p[2])
                rect == viewer'.selection_rect_original
            IN  /\ rect # None
                /\ rect[1] = Min(s[1], e[1]) /\ rect[1] + rect[3] = Max(s[1], e[1])
                /\ rect[2] = Min(s[2], e[2]) /\ rect[2] + rect[4] = Max(s[2], e[2])
                /\ update_selection_from_drag([viewer EXCEPT !.drag_start_pos = p], a)
                       .selection_rect_original = rect
       /\ (DrawRelease /\ viewer.selection_rect_original # None) =>
            LET box  == viewer.selection_rect_original
                rect == viewer'.selection_rect_original
                w    == viewer.original_pixmap[2]
                h    == viewer.original_pixmap[3]
            IN  /\ rect = ClampRect(box, w, h)
                /\ (/\ box[1] >= 0 /\ box[2] >= 0 /\ box[3] >= 1 /\ box[4] >= 1
                    /\ box[1] + box[3] <= w /\ box[2] + box[4] <= h) => rect = box]_vars

---------------------------------------------------------------------------
(* Selection mode and the primary button: an image with a word box, the    *)
(* Select Area toggle, presses of the primary button over the word and     *)
(* away from it, pointer moves and releases                                *)

\* positions of the presses: over the word box and away from it
ModePoints == {OverWord, Centre}

ModeNext ==
    \/ SetImage("a.png")
    \/ SetWordData(PanWords)
    \/ \E enabled \in BOOLEAN : SetSelectionMode(enabled)
    \/ \E p \in ModePoints : MousePress(LeftButton, p)
    \/ MouseMove(Opposite)
    \/ MouseRelease(LeftButton)
    \/ Paint

ModeSpec == Init /\ [][ModeNext]_vars

\* C34: in every reachable state a drag (drawing, moving or resizing) is in
\* progress only if selection mode is enabled, and a selection rectangle
\* exists only if selection mode is enabled; with selection mode disabled a
\* press of the primary button selects the top-most word under the pointer
\* (or none), starts no drag and leaves the selection rectangle as it is
C34_SelectionNeedsMode ==
    /\ Active(viewer) => viewer.selection_mode
    /\ viewer.selection_rect_original # None => viewer.selection_mode
    /\ ~viewer.selection_mode =>
          \A p \in ModePoints :
             LET pressed == mousePressEvent(viewer, LeftButton, p)
             IN  /\ pressed.selected_word_index = WordAt(viewer, p)
                 /\ ~Active(pressed)
                 /\ pressed.selection_rect_original = viewer.selection_rect_original
                 /\ pressed.selection_handles = viewer.selection_handles
                 /\ pressed.drag_start_pos = viewer.drag_start_pos
                 /\ pressed.drag_start_rect = viewer.drag_start_rect

\* C34 witness: selection mode was switched off in the middle of a drag of an
\* existing selection (anchor and snapshot are still set), and a click then
\* selected the word under the pointer
C34_Witness ==
    /\ ~viewer.selection_mode
    /\ viewer.drag_start_rect # None
    /\ viewer.selected_word_index = 0
    /\ viewer.selection_rect_original = None

---------------------------------------------------------------------------
(* point_in_polygon on its own: polygons and test points on a small grid.  *)
(* `emitted` holds the point and the polygon of the call and, after the    *)
(* call, what it returned.                                                 *)

\* largest coordinate of the grid of vertices and test points
MaxVertex == 2

PipGrid == {<<x, y>> : x \in 0..MaxVertex, y \in 0..MaxVertex}

\* every triangle on the grid, degenerate ones included
PipTriangles == {<<a, b, c>> : a \in PipGrid, b \in PipGrid, c \in PipGrid}

\* the orders in which four corners can be listed
CornerOrders ==
    {o \in [1..4 -> 1..4] : \A i \in 1..4 : \E j \in 1..4 : o[j] = i}

\* the axis-aligned rectangles (x0,y0)-(x1,y1) on the grid, x0 < x1 and
\* y0 < y1, their corners listed in every order
PipRectangles ==
    {[i \in 1..4 |-> << <<r[1], r[2]>>, <<r[3], r[2]>>, <<r[3], r[4]>>, <<r[1], r[4]>> >>[o[i]]] :
        r \in {<<x0, y0, x1, y1>> \in (0..MaxVertex) \X (0..MaxVertex)
                                      \X (0..MaxVertex) \X (0..MaxVertex) :
                   x0 < x1 /\ y0 < y1},
        o \in CornerOrders}

PipInit ==
    /\ viewer = NewViewer
    /\ app = NewApp
    /\ pdf = NewHandler
    /\ workers = <<>>
    /\ \E point \in PipGrid, polygon \in PipTriangles \cup PipRectangles :
          emitted = <<[signal |-> "call", point |-> point, polygon |-> polygon,
                       unbound |-> FALSE, inside |-> FALSE]>>

PipCall ==
    /\ emitted[1].signal = "call"
    /\ LET st == PipResult(emitted[1].point, emitted[1].polygon)
       IN  emitted' = <<[emitted[1] EXCEPT !.signal = "return",
                                          !.unbound = st.unbound,
                                          !.inside = point_in_polygon(emitted[1].point,
                                                                      emitted[1].polygon)]>>
    /\ UNCHANGED <<viewer, app, pdf, workers>>

PipSpec == PipInit /\ [][PipCall]_vars

\* whether the first edge of a polygon is horizontal
FirstEdgeHorizontal(polygon) == polygon[1][2] = polygon[2][2]

\* C35: point_in_polygon never reads xinters before it has been assigned,
\* for every vertex order and test point, horizontal first edge included
C35_XintersAssignedBeforeRead ==
    emitted[1].signal = "return" => ~emitted[1].unbound

\* C35 witness: a call with a polygon whose first edge is horizontal and
\* distinct from a point, at the height of the test point and reaching to
\* its right, has returned
C35_Witness ==
    /\ emitted[1].signal = "return"
    /\ FirstEdgeHorizontal(emitted[1].polygon)
    /\ emitted[1].polygon[1][1] # emitted[1].polygon[2][1]
    /\ emitted[1].point[2] = emitted[1].polygon[1][2]
    /\ emitted[1].point[1] <= emitted[1].polygon[2][1]
    /\ emitted[1].inside

\* C35 as stated: a call whose first edge tested is horizontal, at the
\* height of the test point and reaching to its right, reads xinters before
\* its assignment
C35_XintersReadUnassigned ==
    (/\ emitted[1].signal = "return"
     /\ FirstEdgeHorizontal(emitted[1].polygon)
     /\ emitted[1].polygon[1][1] # emitted[1].polygon[2][1]
     /\ emitted[1].point[2] = emitted[1].polygon[1][2]
     /\ emitted[1].point[1] <= Max(emitted[1].polygon[1][1], emitted[1].polygon[2][1]))
        => emitted[1].unbound

---------------------------------------------------------------------------
(* The viewport operations on a viewer that shows a word box and holds a   *)
(* selection: the three zoom methods, widget resizes and pan drags         *)

\* a.png with one word box and the selection (50, 50, 300, 200): committed,
\* and pressed again over its middle (a move drag in progress)
ViewportViewers ==
    LET shown    == set_word_data(set_image(NewViewer, QPixmap("a.png")), PanWords)
        drawing  == mousePressEvent(set_selection_mode(shown, TRUE), LeftButton, Corner)
        drawn    == mouseMoveEvent(drawing, Opposite)
        selected == paintEvent(mouseReleaseEvent(drawn, LeftButton))
    IN  {selected, mousePressEvent(selected, LeftButton, Centre)}

ViewportInit ==
    /\ viewer \in ViewportViewers
    /\ app = NewApp
    /\ pdf = NewHandler
    /\ workers = <<>>
    /\ emitted = <<>>

\* a pointer move while a pan drag is in progress
PanDrag(pos) ==
    /\ viewer.is_panning
    /\ PanMove(pos)

ViewportNext ==
    \/ ZoomIn
    \/ ZoomOut
    \/ ZoomReset
    \/ \E size \in WidgetSizes : Resize(size)
    \/ MousePress(RightButton, Centre)
    \/ PanDrag(Opposite)
    \/ MouseRelease(RightButton)

ViewportSpec == ViewportInit /\ [][ViewportNext]_vars

\* C36: zoom_in, zoom_out, zoom_reset, a pan drag (press, move and release
\* of the right button) and a widget resize leave
\* selection_rect_original and the word list as they are, and a widget
\* resize also leaves zoom_level and the pan offset as they are
C36_ViewportOnly ==
    [][/\ viewer'.selection_rect_original = viewer.selection_rect_original
       /\ viewer'.word_data = viewer.word_data
       /\ (\E size \in WidgetSizes : Resize(size)) =>
             /\ viewer'.zoom_level = viewer.zoom_level
             /\ viewer'.pan_offset_x = viewer.pan_offset_x
             /\ viewer'.pan_offset_y = viewer.pan_offset_y]_vars

\* C36 witness: the viewer has been zoomed, panned and resized, and still
\* holds its selection and its word
C36_Witness ==
    /\ viewer.zoom_level # ZoomOne
    /\ viewer.pan_offset_x # 0
    /\ viewer.width # WidgetSize[1]
    /\ viewer.selection_rect_original = <<50, 50, 300, 200>>
    /\ viewer.word_data = PanWords

\* the edges of a polygon that a ray from the point to the right crosses
\* under the rule's comparisons: the edge is not horizontal, the point's y
\* is above the lower end and not above the upper end, and the point is not
\* to the right of the edge at that height
Crossings(point, polygon) ==
    {i \in 1..Len(polygon) :
        LET p1 == polygon[i]
            p2 == polygon[(i % Len(polygon)) + 1]
            dy == p2[2] - p1[2]
            at == (point[2] - p1[2]) * (p2[1] - p1[1]) + p1[1] * dy
        IN  /\ dy # 0
            /\ point[2] > Min(p1[2], p2[2])
            /\ point[2] <= Max(p1[2], p2[2])
            /\ IF dy > 0 THEN point[1] * dy <= at ELSE point[1] * dy >= at}

\* four distinct vertices, every edge between consecutive ones horizontal or
\* vertical: the boundary of an axis-aligned rectangle, from any corner and
\* in either direction
RectangleBoundary(polygon) ==
    /\ Len(polygon) = 4
    /\ \A i, j \in 1..4 : i # j => polygon[i] # polygon[j]
    /\ \A i \in 1..4 : \/ polygon[i][1] = polygon[(i % 4) + 1][1]
                        \/ polygon[i][2] = polygon[(i % 4) + 1][2]

\* C37: point_in_polygon is the even-odd count of the crossed edges, in
\* which a horizontal edge never counts and never gives a zero divisor, and
\* for the corners of the axis-aligned rectangle (x0,y0)-(x1,y1) listed
\* along its boundary, from any corner and in either direction, a point
\* (x,y) is inside exactly when x0 < x <= x1 and y0 < y <= y1
C37_EvenOddWithFixedBoundaries ==
    emitted[1].signal = "return" =>
        LET point   == emitted[1].point
            polygon == emitted[1].polygon
            xs      == {polygon[q][1] : q \in 1..Len(polygon)}
            ys      == {polygon[q][2] : q \in 1..Len(polygon)}
            st      == PipResult(point, polygon)
        IN  /\ emitted[1].inside <=> (Cardinality(Crossings(point, polygon)) % 2 = 1)
            /\ st.xinters # None => st.xinters[2] # 0
            /\ RectangleBoundary(polygon) =>
                  (emitted[1].inside <=>
                      /\ \E x0 \in xs : x0 < point[1]
                      /\ \A x1 \in xs : \E x \in xs : x >= x1 /\ point[1] <= x
                      /\ \E y0 \in ys : y0 < point[2]
                      /\ \A y1 \in ys : \E y \in ys : y >= y1 /\ point[2] <= y)

\* C37 witness: a call with the boundary of a rectangle and a point on its
\* right edge, at the height of its upper horizontal edge, returned inside
C37_Witness ==
    /\ emitted[1].signal = "return"
    /\ RectangleBoundary(emitted[1].polygon)
    /\ emitted[1].point = <<2, 2>>
    /\ emitted[1].inside

\* C37 as stated, with the four corners listed in any order: the point is
\* reported inside exactly when x0 < x <= x1 and y0 < y <= y1
C37_AnyVertexOrder ==
    (emitted[1].signal = "return" /\ emitted[1].polygon \in PipRectangles) =>
        LET point   == emitted[1].point
            polygon == emitted[1].polygon
            xs      == {polygon[q][1] : q \in 1..4}
            ys      == {polygon[q][2] : q \in 1..4}
        IN  emitted[1].inside <=>
               /\ \E x0 \in xs : x0 < point[1]
               /\ \A x1 \in xs : \E x \in xs : x >= x1 /\ point[1] <= x
               /\ \E y0 \in ys : y0 < point[2]
               /\ \A y1 \in ys : \E y \in ys : y >= y1 /\ point[2] <= y

---------------------------------------------------------------------------
(* The preprocessed image of a run *)

\* C38: when the preprocessed image of a full-image run is delivered it is
\* set into the viewer, and this happens before that run's words are
\* applied; when the preprocessed image of a selection run is delivered the
\* image shown by the viewer is not replaced
C38_PreprocessedImageBeforeWords ==
    [][\A i \in 1..Len(workers) :
         on_preprocessed_image(i) =>
            IF workers[i].crop_rect = None
            THEN /\ viewer'.original_pixmap[1] = "preprocessed"
                 /\ Count(i, "words_detected") = 0
            ELSE viewer'.original_pixmap = viewer.original_pixmap]_vars

---------------------------------------------------------------------------
(* The snapshot of a resize drag *)

\* C39: a primary-button press enters Resizing (dragging_handle set) only
\* on a handle of a selection that exists at the press, and the snapshot
\* drag_start_rect it takes is that selection, never None (stated for the
\* widget as it is once it has been repainted)
C39_ResizeHasSnapshot ==
    (viewer.selection_mode /\ Idle(viewer))
        => \A p \in PressPoints \cup MovePoints :
             LET shown   == paintEvent(viewer)
                 pressed == mousePressEvent(shown, LeftButton, p)
             IN  pressed.dragging_handle # NoHandle
                    => /\ shown.selection_rect_original # None
                       /\ pressed.drag_start_rect = shown.selection_rect_original

---------------------------------------------------------------------------
(* The clamp at the release of a draw drag *)

\* whether a rectangle shares at least one pixel with an image of w x h
Overlaps(r, w, h) ==
    /\ r[3] > 0 /\ r[4] > 0
    /\ r[1] < w /\ r[1] + r[3] > 0
    /\ r[2] < h /\ r[2] + r[4] > 0

\* C40: the release of a draw drag only shrinks the selection: for a dragged
\* rectangle that overlaps the image the stored rectangle lies inside the
\* dragged one and is its intersection with the image
C40_ClampOnlyShrinks ==
    [][(/\ DrawRelease
        /\ viewer.selection_rect_original # None
        /\ Overlaps(viewer.selection_rect_original,
                    viewer.original_pixmap[2], viewer.original_pixmap[3])) =>
          LET box   == viewer.selection_rect_original
              rect  == viewer'.selection_rect_original
              left  == Max(box[1], 0)
              top   == Max(box[2], 0)
              right == Min(box[1] + box[3], viewer.original_pixmap[2])
              below == Min(box[2] + box[4], viewer.original_pixmap[3])
          IN  /\ rect[1] >= box[1] /\ rect[1] + rect[3] <= box[1] + box[3]
              /\ rect[2] >= box[2] /\ rect[2] + rect[4] <= box[2] + box[4]
              /\ rect = <<left, top, right - left, below - top>>]_vars

=============================================================================
